---------------------------- MODULE Spec2Model ----------------------------
(***************************************************************************)
(* Graph assembly and validation of the P&ID extraction backend:           *)
(*   backend/services/graph.py     assemble_graph                          *)
(*   backend/services/validate.py  validate_graph                          *)
(*   backend/main.py               the caller that combines the issues     *)
(*                                                                         *)
(* Encoding.                                                               *)
(*  - Optional[T] is a sequence of length <= 1: None is <<>>, a value v is *)
(*    <<v>>.                                                               *)
(*  - get_bbox_center returns (x + w/2, y + h/2); the model keeps every    *)
(*    coordinate doubled, so that the half-integers stay integers, and     *)
(*    keeps distances squared: a distance d of the code is the number      *)
(*    4*d*d here.  numpy's sqrt is monotone and exact enough on these      *)
(*    magnitudes for `d < t` to be `4*d*d < 4*t*t` and for `d1 < d2` to be *)
(*    the comparison of the squares.                                       *)
(*  - float('inf') is None (<<>>) in min_dist.                             *)
(*  - a confidence is kept in hundredths (0.75 is 75).                     *)
(***************************************************************************)
EXTENDS Integers, Sequences, FiniteSets, TLC

-----------------------------------------------------------------------------
(* Bounds of the model *)

MaxNodes == 2
MaxLines == 1
MaxTexts == 2
MaxVNodes == 1
MaxVEdges == 1
MaxCalls == 2

-----------------------------------------------------------------------------
(* Optional values *)

None == <<>>
Some(v) == <<v>>
IsNone(o) == o = <<>>
Val(o) == o[1]

\* Python truthiness of an Optional[str]: None and "" are falsy
Falsy(o) == IsNone(o) \/ Val(o) = ""

-----------------------------------------------------------------------------
(* Program constants *)

TextNodeThreshold == 100
EdgeLabelThreshold == 50
ConnectThreshold == 50
LowConfidence == 75

\* ids the perception stages hand out: f"symbol_{i}", f"jct_{i}",
\* f"line_{i}", f"text_{i}"
SymbolIds == <<"symbol_0", "symbol_1", "symbol_2", "symbol_3">>
JunctionIds == <<"jct_0", "jct_1", "jct_2", "jct_3">>
LineIds == <<"line_0", "line_1", "line_2">>
TextIds == <<"text_0", "text_1", "text_2", "text_3">>
TextContents == <<"TANK-101", "FIC-101", "PSHH-12A", "P-7">>

-----------------------------------------------------------------------------
(* Geometry: graph.py get_bbox_center, calculate_distance *)

BBox(x, y, w, h) == [x |-> x, y |-> y, w |-> w, h |-> h]

\* (x + w/2, y + h/2), doubled
get_bbox_center(bbox) == <<2 * bbox.x + bbox.w, 2 * bbox.y + bbox.h>>

\* an integer point of a polyline, doubled
Point2(p) == <<2 * p[1], 2 * p[2]>>

\* ((p1[0] + p2[0]) / 2, (p1[1] + p2[1]) / 2), doubled
Midpoint2(p1, p2) == <<p1[1] + p2[1], p1[2] + p2[2]>>

\* sqrt((p1[0]-p2[0])**2 + (p1[1]-p2[1])**2) on doubled points, squared
calculate_distance(p1, p2) ==
    (p1[1] - p2[1]) * (p1[1] - p2[1]) + (p1[2] - p2[2]) * (p1[2] - p2[2])

\* mutation of Within: `dist <= threshold`
WithinOrAt(dist, threshold) == dist <= 4 * threshold * threshold

\* `dist < threshold`
Within(dist, threshold) == dist < 4 * threshold * threshold

\* `dist < min_dist`, min_dist starting at float('inf')
Closer(dist, min_dist) == IsNone(min_dist) \/ dist < Val(min_dist)

-----------------------------------------------------------------------------
(* Inner loops of assemble_graph *)

\* for text in unassigned_texts: if dist < threshold and dist < min_dist ...
\* returns the index in the pool of closest_text, 0 for None
RECURSIVE ScanTexts(_, _, _, _, _, _)
ScanTexts(center, pool, threshold, k, closest, min_dist) ==
    IF k > Len(pool) THEN closest
    ELSE LET dist == calculate_distance(center, get_bbox_center(pool[k].bbox))
         IN  IF Within(dist, threshold) /\ Closer(dist, min_dist)
             THEN ScanTexts(center, pool, threshold, k + 1, k, Some(dist))
             ELSE ScanTexts(center, pool, threshold, k + 1, closest, min_dist)

\* list.remove(x): drops the first element equal to x
RECURSIVE FirstEqual(_, _, _)
FirstEqual(seq, x, k) ==
    IF k > Len(seq) THEN 0
    ELSE IF seq[k] = x THEN k
    ELSE FirstEqual(seq, x, k + 1)

\* mutation of ClosestText: the scan stops after the first text of the pool
ClosestTextOfFirst(center, pool, threshold) ==
    IF pool /= <<>>
       /\ Within(calculate_distance(center, get_bbox_center(pool[1].bbox)),
                 threshold)
    THEN 1
    ELSE 0

ClosestText(center, pool, threshold) ==
    ScanTexts(center, pool, threshold, 1, 0, None)

\* mutation of ListRemove: the text stays in the pool
ListKeep(seq, x) == seq

ListRemove(seq, x) ==
    LET k == FirstEqual(seq, x, 1)
    IN  IF k = 0 THEN seq
        ELSE SubSeq(seq, 1, k - 1) \o SubSeq(seq, k + 1, Len(seq))

\* for node in all_nodes: if dist < min_dist ...  (one endpoint of the edge)
\* returns <<index of the closest node (0 for None), min_dist>>
RECURSIVE ScanNodes(_, _, _, _, _)
ScanNodes(point, all_nodes, k, closest, min_dist) ==
    IF k > Len(all_nodes) THEN <<closest, min_dist>>
    ELSE LET dist == calculate_distance(point, get_bbox_center(all_nodes[k].bbox))
         IN  IF Closer(dist, min_dist)
             THEN ScanNodes(point, all_nodes, k + 1, k, Some(dist))
             ELSE ScanNodes(point, all_nodes, k + 1, closest, min_dist)

ClosestNode(point, all_nodes) == ScanNodes(point, all_nodes, 1, 0, None)

\* mutation of Connects: `min_dist <= 50 and closest_node`
ConnectsAt(scan) ==
    /\ ~IsNone(scan[2])
    /\ Val(scan[2]) <= 4 * 50 * 50
    /\ scan[1] /= 0

\* `min_dist < 50 and closest_node`
Connects(scan) ==
    /\ ~IsNone(scan[2])
    /\ Within(Val(scan[2]), ConnectThreshold)
    /\ scan[1] /= 0

\* mutation of Unpacks: p1, p2 = edge.polyline[0], edge.polyline[-1]
UnpacksEnds(polyline) == Len(polyline) >= 1

\* `p1, p2 = edge.polyline` raises ValueError unless there are exactly 2 points
Unpacks(polyline) == Len(polyline) = 2

\* mutation of AfterRaise: the tags written by the call are taken back
AfterRaiseRolledBack(objects) ==
    [k \in 1..Len(objects) |-> [objects[k] EXCEPT !.tag = None]]

\* the objects passed in once the ValueError has left assemble_graph: there
\* is no handler, they are as the loops left them
AfterRaise(objects) == objects

\* mutation of GraphTexts: `unassigned_texts = texts`, the pool is the list
\* of the graph
GraphTextsAliased(graph_texts, pool) == pool

\* `unassigned_texts = list(texts)`: the pool is a copy, graph.texts is as it
\* was whatever the pool has become
GraphTexts(graph_texts, pool) == graph_texts

\* mutation of EndpointId: the id of the edge itself
EndpointIdOfEdge(node, edge) == edge.id

\* the id written into an endpoint slot: closest_node.id
EndpointId(node, edge) == node.id

-----------------------------------------------------------------------------
(* Inputs of the pipeline *)

A == <<0, 0>>
B == <<100, 0>>

\* polylines of the line stage (two points) and of other callers
Polylines == {<<>>, <<A>>, <<A, B>>, <<B, B>>, <<A, A, B>>}

\* lines.py: BoundingBox(x=p[0]-2, y=p[1]-2, w=4, h=4)
JunctionBox(p) == BBox(p[1] - 2, p[2] - 2, 4, 4)

\* symbol detections: kind, type, confidence and box
Detections ==
    { [kind |-> "equipment", type |-> "pump", confidence |-> 74,
       bbox |-> BBox(20, 30, 20, 20)],
      [kind |-> "instrument", type |-> "instrument_bubble", confidence |-> 90,
       bbox |-> BBox(29, 39, 1, 2)] }

TextBoxes ==
    {BBox(50, 70, 20, 20), BBox(40, -5, 20, 10), BBox(70, 35, 20, 10),
     BBox(100, -5, 20, 10)}

Node(id, kind, type, bbox, confidence) ==
    [id |-> id, kind |-> kind, type |-> type, bbox |-> bbox, tag |-> None,
     attributes |-> None, confidence |-> confidence]

Edge(id, kind, polyline) ==
    [id |-> id, kind |-> kind, polyline |-> polyline, direction |-> "unknown",
     endpoints |-> <<None, None>>, label |-> None]

Text(id, content, bbox) == [id |-> id, content |-> content, bbox |-> bbox]

Issue(id, severity, message, targetId) ==
    [id |-> id, severity |-> severity, message |-> message,
     targetId |-> targetId]

SymbolLists ==
    UNION { { [k \in 1..n |->
                 Node(SymbolIds[k], d[k].kind, Some(d[k].type), d[k].bbox,
                      Some(d[k].confidence))] :
              d \in [1..n -> Detections] } : n \in 0..MaxNodes }

JunctionLists ==
    UNION { { [k \in 1..n |->
                 Node(JunctionIds[k], "junction", None, JunctionBox(p[k]), None)] :
              p \in [1..n -> {A, B}] } : n \in 0..MaxNodes }

LineLists ==
    UNION { { [k \in 1..n |-> Edge(LineIds[k], "process", pl[k])] :
              pl \in [1..n -> Polylines] } : n \in 0..MaxLines }

TextLists ==
    UNION { { [k \in 1..n |-> Text(TextIds[k], TextContents[k], b[k])] :
              b \in [1..n -> TextBoxes] } : n \in 0..MaxTexts }

\* symbols.py: a detection scoring below 0.8 is flagged by the detector
DetectorIssues(symbols) ==
    LET Flagged == SelectSeq(symbols, LAMBDA n: Val(n.confidence) < 80)
    IN  [k \in 1..Len(Flagged) |->
           Issue(<<"issue_uuid", k>>, "info",
                 <<"Low confidence detection", Flagged[k].confidence,
                   Flagged[k].type>>,
                 Some(Flagged[k].id))]

-----------------------------------------------------------------------------
(* State *)

VARIABLES
    nodes,             \* graph.nodes: the Node objects, symbols then junctions
    edges,             \* graph.edges: the Edge objects
    texts,             \* graph.texts
    issues,            \* graph.issues
    unassigned_texts,  \* the working pool of assemble_graph
    pc,                \* position of the run
    i,                 \* index of the loop the run is in (1-based)
    returned,          \* what validate_graph returned last
    symbol_issues,     \* detection_result["issues"]
    consumed,          \* history: <<target id, text id>> of every assignment
    calls,             \* history: validate_graph calls on the graph so far,
                       \* MaxCalls standing for that many or more
    exported,          \* what the export called last has returned
    tag_text,          \* the string handed to parse_isa_tag, a sequence of
                       \* characters
    instrument_tag,    \* the InstrumentTag parse_isa_tag has returned
    temp_dir,          \* TEMP_DIR: the stored files, <<image id, extension>>,
                       \* oldest first
    response,          \* the answer to the last HTTP request
    input,             \* history: the graph the running call was given
    other,             \* the other call, suspended, when two calls are interleaved
    local_issues       \* the locals of validate_graph: <<issues, issue_counter>>

vars == <<nodes, edges, texts, issues, unassigned_texts, pc, i, returned,
          symbol_issues, consumed, calls, exported, tag_text, instrument_tag,
          temp_dir, response,
          input, other, local_issues>>

\* models.py InstrumentTag
InstrumentTag(rawTag, loopLetters, loopNo, modifiers, isParsed) ==
    [rawTag |-> rawTag, loopLetters |-> loopLetters, loopNo |-> loopNo,
     modifiers |-> modifiers, isParsed |-> isParsed]

\* parse_isa_tag has not been called
NoTag == InstrumentTag(<<>>, None, None, None, FALSE)

\* no export has been called
NotExported == [format |-> "none"]

\* no request has been answered
NoResponse ==
    [endpoint |-> "none", type |-> "", status |-> 0, image_id |-> 0,
     stages |-> <<>>]

\* the arguments of a call of assemble_graph: the objects handed over
Graph(ns, es, ts) == [nodes |-> ns, edges |-> es, texts |-> ts]

\* a call of assemble_graph followed by validate_graph, suspended: the
\* objects it works on, its position and its local variables
Frame(graph, ns, es, ts, found, pool, at, index, result, history, n, locals) ==
    [input |-> graph, nodes |-> ns, edges |-> es, texts |-> ts,
     issues |-> found, unassigned_texts |-> pool, pc |-> at,
     i |-> index, returned |-> result, consumed |-> history,
     calls |-> n, local_issues |-> locals]

\* no second call
NoRun ==
    Frame(Graph(<<>>, <<>>, <<>>), <<>>, <<>>, <<>>, <<>>, <<>>, "none", 0,
          <<>>, <<>>, 0, <<<<>>, 0>>)

\* Graph(nodes=symbols + junctions, ...)
GraphNodes(symbols, junctions) == symbols \o junctions

\* graph = Graph(nodes=symbols + junctions, edges=lines, texts=texts)
\* unassigned_texts = list(texts)
Init ==
    \E symbols \in SymbolLists, junctions \in JunctionLists,
       lines \in LineLists, ts \in TextLists :
        /\ Len(symbols) + Len(junctions) <= MaxNodes
        /\ nodes = GraphNodes(symbols, junctions)
        /\ edges = lines
        /\ texts = ts
        /\ issues = <<>>
        /\ unassigned_texts = ts
        /\ pc = "nodes"
        /\ i = 1
        /\ returned = <<>>
        /\ symbol_issues = DetectorIssues(symbols)
        /\ consumed = <<>>
        /\ calls = 0
        /\ exported = NotExported
        /\ tag_text = <<>>
        /\ instrument_tag = NoTag
        /\ temp_dir = <<>>
        /\ response = NoResponse
        /\ input = Graph(nodes, edges, texts)
        /\ other = NoRun
        /\ local_issues = <<<<>>, 0>>

-----------------------------------------------------------------------------
(* assemble_graph, one loop iteration per step *)

\* 1. Assign to nodes: one iteration of `for node in graph.nodes`
AssignNodeTag ==
    /\ pc = "nodes"
    /\ i <= Len(nodes)
    /\ LET node == nodes[i]
           k == ClosestText(get_bbox_center(node.bbox), unassigned_texts,
                            TextNodeThreshold)
       IN  IF k /= 0
           THEN /\ nodes' = [nodes EXCEPT ![i].tag = Some(unassigned_texts[k].content)]
                /\ unassigned_texts' = ListRemove(unassigned_texts, unassigned_texts[k])
                /\ consumed' = Append(consumed, <<node.id, unassigned_texts[k].id>>)
           ELSE UNCHANGED <<nodes, unassigned_texts, consumed>>
    /\ i' = i + 1
    /\ texts' = GraphTexts(texts, unassigned_texts')
    /\ UNCHANGED <<edges, issues, pc, returned, symbol_issues>>
    /\ UNCHANGED calls
    /\ UNCHANGED exported
    /\ UNCHANGED <<tag_text, instrument_tag>>
    /\ UNCHANGED <<temp_dir, response>>
    /\ UNCHANGED <<input, other, local_issues>>

NodesDone ==
    /\ pc = "nodes"
    /\ i > Len(nodes)
    /\ pc' = "labels"
    /\ i' = 1
    /\ UNCHANGED <<nodes, edges, texts, issues, unassigned_texts, returned,
                   symbol_issues, consumed>>
    /\ UNCHANGED calls
    /\ UNCHANGED exported
    /\ UNCHANGED <<tag_text, instrument_tag>>
    /\ UNCHANGED <<temp_dir, response>>
    /\ UNCHANGED <<input, other, local_issues>>

\* 2. Assign remaining text to edges: one iteration of `for edge in graph.edges`
\* `p1, p2 = edge.polyline` raises ValueError unless there are exactly 2 points
AssignEdgeLabel ==
    /\ pc = "labels"
    /\ i <= Len(edges)
    /\ LET edge == edges[i]
       IN  IF ~Unpacks(edge.polyline)
           THEN /\ pc' = "error"
                /\ nodes' = AfterRaise(nodes)
                /\ UNCHANGED <<edges, unassigned_texts, consumed, i>>
           ELSE LET p1 == edge.polyline[1]
                    p2 == edge.polyline[Len(edge.polyline)]  \* the second of two
                    k == ClosestText(Midpoint2(p1, p2), unassigned_texts,
                                     EdgeLabelThreshold)
                IN  /\ IF k /= 0
                       THEN /\ edges' = [edges EXCEPT
                                           ![i].label = Some(unassigned_texts[k].content)]
                            /\ unassigned_texts' =
                                   ListRemove(unassigned_texts, unassigned_texts[k])
                            /\ consumed' =
                                   Append(consumed, <<edge.id, unassigned_texts[k].id>>)
                       ELSE UNCHANGED <<edges, unassigned_texts, consumed>>
                    /\ i' = i + 1
                    /\ pc' = pc
                    /\ nodes' = nodes
    /\ texts' = GraphTexts(texts, unassigned_texts')
    /\ UNCHANGED <<issues, returned, symbol_issues>>
    /\ UNCHANGED calls
    /\ UNCHANGED exported
    /\ UNCHANGED <<tag_text, instrument_tag>>
    /\ UNCHANGED <<temp_dir, response>>
    /\ UNCHANGED <<input, other, local_issues>>

LabelsDone ==
    /\ pc = "labels"
    /\ i > Len(edges)
    /\ pc' = "connect"
    /\ i' = 1
    /\ UNCHANGED <<nodes, edges, texts, issues, unassigned_texts, returned,
                   symbol_issues, consumed>>
    /\ UNCHANGED calls
    /\ UNCHANGED exported
    /\ UNCHANGED <<tag_text, instrument_tag>>
    /\ UNCHANGED <<temp_dir, response>>
    /\ UNCHANGED <<input, other, local_issues>>

\* Connect Edges to Nodes: one iteration of the second `for edge in graph.edges`
\* edge.polyline[0] and edge.polyline[-1] raise IndexError on an empty polyline
ConnectEdge ==
    /\ pc = "connect"
    /\ i <= Len(edges)
    /\ LET edge == edges[i]
       IN  IF Len(edge.polyline) = 0
           THEN /\ pc' = "error"
                /\ UNCHANGED <<edges, i>>
           ELSE LET start_point == Point2(edge.polyline[1])
                    end_point == Point2(edge.polyline[Len(edge.polyline)])
                    s == ClosestNode(start_point, nodes)
                    e == ClosestNode(end_point, nodes)
                    ep0 == IF Connects(s)
                           THEN Some(EndpointId(nodes[s[1]], edge))
                           ELSE edge.endpoints[1]
                    ep1 == IF Connects(e)
                           THEN Some(EndpointId(nodes[e[1]], edge))
                           ELSE edge.endpoints[2]
                IN  /\ edges' = [edges EXCEPT ![i].endpoints = <<ep0, ep1>>]
                    /\ i' = i + 1
                    /\ pc' = pc
    /\ UNCHANGED <<nodes, texts, issues, unassigned_texts, returned,
                   symbol_issues, consumed>>
    /\ UNCHANGED calls
    /\ UNCHANGED exported
    /\ UNCHANGED <<tag_text, instrument_tag>>
    /\ UNCHANGED <<temp_dir, response>>
    /\ UNCHANGED <<input, other, local_issues>>

\* return graph
ReturnGraph ==
    /\ pc = "connect"
    /\ i > Len(edges)
    /\ pc' = "assembled"
    /\ i' = 0
    /\ UNCHANGED <<nodes, edges, texts, issues, unassigned_texts, returned,
                   symbol_issues, consumed>>
    /\ UNCHANGED calls
    /\ UNCHANGED exported
    /\ UNCHANGED <<tag_text, instrument_tag>>
    /\ UNCHANGED <<temp_dir, response>>
    /\ UNCHANGED <<input, other, local_issues>>

-----------------------------------------------------------------------------
(* validate_graph *)

\* f"issue_{issue_counter}"
IssueId(issue_counter) == <<"issue", issue_counter>>

\* an issue message: the text, and the confidence and type an f-string cites
Message(text) == <<text, None, None>>

MissingLabel == Message("Process line is missing a label/tag.")
DanglingStart == Message("Line has a dangling start point (not connected to any node).")
DanglingEnd == Message("Line has a dangling end point (not connected to any node).")

\* f"Low confidence symbol match ({node.confidence:.2f}) for '{node.type}'."
LowConfidenceMessage(node) ==
    <<"Low confidence symbol match", node.confidence, node.type>>

\* mutation of Emit: `issue_counter += 1` forgotten
EmitSameId(st, severity, message, targetId) ==
    <<Append(st[1], Issue(<<"issue", st[2]>>, severity, message, Some(targetId))),
      st[2]>>

\* issues.append(Issue(id=f"issue_{issue_counter}", ...)); issue_counter += 1
\* st is <<issues, issue_counter>>
Emit(st, severity, message, targetId) ==
    <<Append(st[1], Issue(IssueId(st[2]), severity, message, Some(targetId))),
      st[2] + 1>>

\* mutation of MissingLabelCond: `if edge.label is None and ...`
MissingLabelCondNoneOnly(edge) == IsNone(edge.label) /\ edge.kind = "process"

\* `if not edge.label and edge.kind == "process"`
MissingLabelCond(edge) == Falsy(edge.label) /\ edge.kind = "process"

\* Rule 1: Find lines with missing labels
RECURSIVE Rule1(_, _, _)
Rule1(es, k, st) ==
    IF k > Len(es) THEN st
    ELSE IF MissingLabelCond(es[k])
         THEN Rule1(es, k + 1, Emit(st, "warn", MissingLabel, es[k].id))
         ELSE Rule1(es, k + 1, st)

\* mutation of DanglingCond: the `not` forgotten
DanglingCondInverted(endpoint) == ~(IsNone(endpoint) \/ Val(endpoint) = "")

\* `if not start_node`, `if not end_node`
DanglingCond(endpoint) == Falsy(endpoint)

\* mutation of Rule2: `elif not end_node`
RECURSIVE Rule2Elif(_, _, _)
Rule2Elif(es, k, st) ==
    IF k > Len(es) THEN st
    ELSE LET start_node == es[k].endpoints[1]
             end_node == es[k].endpoints[2]
             st1 == IF IsNone(start_node) \/ Val(start_node) = ""
                    THEN Emit(st, "warn", DanglingStart, es[k].id)
                    ELSE IF IsNone(end_node) \/ Val(end_node) = ""
                         THEN Emit(st, "warn", DanglingEnd, es[k].id)
                         ELSE st
         IN  Rule2Elif(es, k + 1, st1)

\* Rule 2: Find dangling line ends
RECURSIVE Rule2(_, _, _)
Rule2(es, k, st) ==
    IF k > Len(es) THEN st
    ELSE LET start_node == es[k].endpoints[1]
             end_node == es[k].endpoints[2]
             st1 == IF DanglingCond(start_node)
                    THEN Emit(st, "warn", DanglingStart, es[k].id)
                    ELSE st
             st2 == IF DanglingCond(end_node)
                    THEN Emit(st1, "warn", DanglingEnd, es[k].id)
                    ELSE st1
         IN  Rule2(es, k + 1, st2)

\* mutation of LowConfidenceCond: `node.confidence <= 0.75`
LowConfidenceCondAt(node) ==
    /\ node.kind \in {"equipment", "instrument"}
    /\ ~IsNone(node.confidence)
    /\ Val(node.confidence) <= 75

\* `node.kind in ["equipment", "instrument"] and node.confidence is not None`
\* and then `node.confidence < 0.75`
LowConfidenceCond(node) ==
    /\ node.kind \in {"equipment", "instrument"}
    /\ ~IsNone(node.confidence)
    /\ Val(node.confidence) < LowConfidence

\* Rule 3: Flag low-confidence symbol matches
RECURSIVE Rule3(_, _, _)
Rule3(ns, k, st) ==
    IF k > Len(ns) THEN st
    ELSE IF LowConfidenceCond(ns[k])
         THEN Rule3(ns, k + 1, Emit(st, "info", LowConfidenceMessage(ns[k]), ns[k].id))
         ELSE Rule3(ns, k + 1, st)

\* mutation of NoIssues: the counter goes on from the issues the graph holds
CounterKept == <<<<>>, Len(issues)>>

\* issues = []; issue_counter = 0
NoIssues == <<<<>>, 0>>

\* issues = []; issue_counter = 0; rules 1, 2, 3 in this order
validate_graph(ns, es) == Rule3(ns, 1, Rule2(es, 1, Rule1(es, 1, NoIssues)))[1]

\* mutation of StoredIssues: graph.issues.extend(issues)
StoredIssuesAppended(old, new) == old \o new

\* graph.issues = issues, whatever graph.issues held before
StoredIssues(old, new) == new

\* validate_graph(graph): graph.issues = issues; return issues
\* one call of validate_graph on the graph
ValidateCall ==
    /\ LET new == validate_graph(nodes, edges)
       IN  /\ issues' = StoredIssues(issues, new)
           /\ returned' = new
    /\ pc' = "validated"
    /\ calls' = IF calls < MaxCalls THEN calls + 1 ELSE calls
    /\ UNCHANGED <<nodes, edges, texts, unassigned_texts, i, symbol_issues,
                   consumed>>
    /\ UNCHANGED exported
    /\ UNCHANGED <<tag_text, instrument_tag>>
    /\ UNCHANGED <<temp_dir, response>>
    /\ UNCHANGED <<input, other, local_issues>>

\* validate_graph called on a graph that assemble_graph has returned
Validate ==
    /\ pc \in {"assembled", "validated", "combined"}
    /\ ValidateCall

\* mutation of AllIssues: what validate_graph left in graph.issues is kept
AllIssuesOfGraph(detector_issues, validation_issues) == validation_issues

\* all_issues = symbol_issues + validation_issues
AllIssues(detector_issues, validation_issues) ==
    detector_issues \o validation_issues

\* main.py: all_issues = symbol_issues + validation_issues
\*          initial_graph.issues = all_issues
Combine ==
    /\ pc = "validated"
    /\ issues' = AllIssues(symbol_issues, returned)
    /\ pc' = "combined"
    /\ UNCHANGED <<nodes, edges, texts, unassigned_texts, i, returned,
                   symbol_issues, consumed>>
    /\ UNCHANGED calls
    /\ UNCHANGED exported
    /\ UNCHANGED <<tag_text, instrument_tag>>
    /\ UNCHANGED <<temp_dir, response>>
    /\ UNCHANGED <<input, other, local_issues>>

-----------------------------------------------------------------------------
(* The pipeline: assemble_graph, then validate_graph, then the caller *)

Next ==
    \/ AssignNodeTag
    \/ NodesDone
    \/ AssignEdgeLabel
    \/ LabelsDone
    \/ ConnectEdge
    \/ ReturnGraph
    \/ Validate
    \/ Combine

Spec == Init /\ [][Next]_vars

-----------------------------------------------------------------------------
(* validate_graph on any graph a caller may pass *)

NodeKinds == {"equipment", "instrument", "junction", "unknown"}
EdgeKinds == {"process", "signal"}
Confidences == {None, Some(74), Some(75)}
Labels == {None, Some(""), Some("L-1")}

\* an issue a perception stage seeded (symbols.py, unknown symbol)
UnknownSymbolIssue ==
    [id |-> <<"issue_uuid", 1>>, severity |-> "warn",
     message |-> Message("Unknown symbol detected"), targetId |-> None]

VNodeLists ==
    UNION { { [k \in 1..n |->
                 Node(SymbolIds[k], c[k][1], Some("pump"), BBox(0, 0, 0, 0), c[k][2])] :
              c \in [1..n -> NodeKinds \X Confidences] } : n \in 0..MaxVNodes }

VEndpoints == {None, Some(SymbolIds[1])}

VEdgeLists ==
    UNION { { [k \in 1..n |->
                 [Edge(LineIds[k], c[k][1], <<A, B>>) EXCEPT
                    !.label = c[k][2], !.endpoints = <<c[k][3], c[k][4]>>]] :
              c \in [1..n -> EdgeKinds \X Labels \X VEndpoints \X VEndpoints] } :
            n \in 0..MaxVEdges }

\* the ids edge es[k] refers to are ids of nodes of ns
RefersTo(es, ns) ==
    \A k \in 1..Len(es) : \A s \in 1..2 :
        IF IsNone(es[k].endpoints[s]) THEN TRUE
        ELSE \E j \in 1..Len(ns) : ns[j].id = Val(es[k].endpoints[s])

InitV ==
    \E ns \in VNodeLists, es \in VEdgeLists,
       seeded \in {<<>>, <<UnknownSymbolIssue>>} :
        /\ RefersTo(es, ns)
        /\ nodes = ns
        /\ edges = es
        /\ texts = <<>>
        /\ issues = seeded
        /\ unassigned_texts = <<>>
        /\ pc = "assembled"
        /\ i = 0
        /\ returned = <<>>
        /\ symbol_issues = seeded
        /\ consumed = <<>>
        /\ calls = 0
        /\ exported = NotExported
        /\ tag_text = <<>>
        /\ instrument_tag = NoTag
        /\ temp_dir = <<>>
        /\ response = NoResponse
        /\ input = NoRun.input
        /\ other = NoRun
        /\ local_issues = <<<<>>, 0>>

NextV ==
    \/ Validate
    \/ Combine

SpecV == InitV /\ [][NextV]_vars

-----------------------------------------------------------------------------
(* export.py: to_dexpi_lite_json and to_csv on the final graph *)

\* f"placeholder/{node.type}"
NodeClassRef(type) == <<"placeholder/", type>>

\* f"placeholder/{edge.kind}_line"
LineClassRef(kind) == <<"placeholder/", kind, "_line">>

DexpiNode(node) ==
    [id |-> node.id, classRef |-> NodeClassRef(node.type), bbox |-> node.bbox,
     tag |-> node.tag]

DexpiLine(edge) ==
    [id |-> edge.id, classRef |-> LineClassRef(edge.kind),
     polyline |-> edge.polyline]

DexpiConnection(edge) ==
    [from_node |-> Val(edge.endpoints[1]), to_node |-> Val(edge.endpoints[2]),
     line_id |-> edge.id]

\* `if node.kind == "equipment"`
IsEquipment(node) == node.kind = "equipment"

\* mutation of IsInstrument: `else` for `elif node.kind == "instrument"`
IsNotEquipment(node) == node.kind /= "equipment"

\* `elif node.kind == "instrument"`
IsInstrument(node) == node.kind = "instrument"

\* for node in graph.nodes: equipment.append(...) / instruments.append(...)
\* doc is <<equipment, instruments>>
RECURSIVE ExportNodes(_, _, _)
ExportNodes(ns, k, doc) ==
    IF k > Len(ns) THEN doc
    ELSE IF IsEquipment(ns[k])
         THEN ExportNodes(ns, k + 1, <<Append(doc[1], DexpiNode(ns[k])), doc[2]>>)
         ELSE IF IsInstrument(ns[k])
              THEN ExportNodes(ns, k + 1, <<doc[1], Append(doc[2], DexpiNode(ns[k]))>>)
              ELSE ExportNodes(ns, k + 1, doc)

\* mutation of HasBothEnds: node_map is consulted, and an edge is connected
\* only between nodes that the document lists
HasListedEnds(edge) ==
    /\ ~Falsy(edge.endpoints[1])
    /\ ~Falsy(edge.endpoints[2])
    /\ \A e \in 1..2 :
          \E k \in 1..Len(nodes) :
              /\ nodes[k].id = Val(edge.endpoints[e])
              /\ nodes[k].kind \in {"equipment", "instrument"}

\* mutation of HasBothEnds: an edge from a node to itself is left out too
HasDistinctEnds(edge) ==
    /\ ~Falsy(edge.endpoints[1])
    /\ ~Falsy(edge.endpoints[2])
    /\ edge.endpoints[1] /= edge.endpoints[2]

\* `if start_node_id and end_node_id`
HasBothEnds(edge) == ~Falsy(edge.endpoints[1]) /\ ~Falsy(edge.endpoints[2])

\* for edge in graph.edges: lines.append(...); connections.append(...)
\* doc is <<lines, connections>>
RECURSIVE ExportEdges(_, _, _)
ExportEdges(es, k, doc) ==
    IF k > Len(es) THEN doc
    ELSE LET lines == Append(doc[1], DexpiLine(es[k]))
         IN  IF HasBothEnds(es[k])
             THEN ExportEdges(es, k + 1,
                              <<lines, Append(doc[2], DexpiConnection(es[k]))>>)
             ELSE ExportEdges(es, k + 1, <<lines, doc[2]>>)

\* mutation of DocumentIssues: the assignment forgotten, the default [] stays
DocumentIssuesDefault(graph_issues) == <<>>

\* export_data.issues = graph.issues
DocumentIssues(graph_issues) == graph_issues

\* the DexpiExport that model_dump_json writes out, field by field
to_dexpi_lite_json(ns, es, graph_issues) ==
    LET n == ExportNodes(ns, 1, <<<<>>, <<>>>>)
        e == ExportEdges(es, 1, <<<<>>, <<>>>>)
    IN  [format |-> "json", equipment |-> n[1], instruments |-> n[2],
         lines |-> e[1], connections |-> e[2],
         issues |-> DocumentIssues(graph_issues)]

\* a field of a csv row: what to_csv writes between two commas, nothing for
\* None (na_rep='') and for the empty string
Cell(o) == IF IsNone(o) THEN <<>> ELSE IF Val(o) = "" THEN <<>> ELSE <<Val(o)>>

\* a field holding a number that may be None
NumCell(o) == IF IsNone(o) THEN <<>> ELSE <<Val(o)>>

NodeColumns ==
    <<"id", "kind", "type", "tag", "confidence", "bbox_x", "bbox_y", "bbox_w",
      "bbox_h">>

EdgeColumns == <<"id", "kind", "label", "direction", "from_node", "to_node">>

\* node_data.append({"id": node.id, ...})
NodeRow(node) ==
    <<Cell(Some(node.id)), Cell(Some(node.kind)), Cell(node.type), Cell(node.tag),
      NumCell(node.confidence), NumCell(Some(node.bbox.x)),
      NumCell(Some(node.bbox.y)), NumCell(Some(node.bbox.w)),
      NumCell(Some(node.bbox.h))>>

\* edge_data.append({"id": edge.id, ...})
EdgeRow(edge) ==
    <<Cell(Some(edge.id)), Cell(Some(edge.kind)), Cell(edge.label),
      Cell(Some(edge.direction)), Cell(edge.endpoints[1]),
      Cell(edge.endpoints[2])>>

\* pd.DataFrame(data).to_csv(index=False): the columns are the keys of the
\* dicts, so a DataFrame of no dict has no column and its csv no header
DataFrameCsv(columns, rows) ==
    IF rows = <<>> THEN [columns |-> <<>>, rows |-> <<>>]
    ELSE [columns |-> columns, rows |-> rows]

to_csv(ns, es) ==
    [format |-> "csv",
     nodes |-> DataFrameCsv(NodeColumns, [k \in 1..Len(ns) |-> NodeRow(ns[k])]),
     edges |-> DataFrameCsv(EdgeColumns, [k \in 1..Len(es) |-> EdgeRow(es[k])])]

\* main.py export_data, format "json": export.to_dexpi_lite_json(final_graph)
ExportJson ==
    /\ pc = "combined"
    /\ exported' = to_dexpi_lite_json(nodes, edges, issues)
    /\ UNCHANGED <<nodes, edges, texts, issues, unassigned_texts, pc, i,
                   returned, symbol_issues, consumed, calls>>
    /\ UNCHANGED <<tag_text, instrument_tag>>
    /\ UNCHANGED <<temp_dir, response>>
    /\ UNCHANGED <<input, other, local_issues>>

\* main.py export_data, format "csv": export.to_csv(final_graph)
ExportCsv ==
    /\ pc = "combined"
    /\ exported' = to_csv(nodes, edges)
    /\ UNCHANGED <<nodes, edges, texts, issues, unassigned_texts, pc, i,
                   returned, symbol_issues, consumed, calls>>
    /\ UNCHANGED <<tag_text, instrument_tag>>
    /\ UNCHANGED <<temp_dir, response>>
    /\ UNCHANGED <<input, other, local_issues>>

\* the final graphs the exports are applied to
Types == {None, Some("pump")}
Tags == {None, Some("FIC-101")}

\* junctions carry no confidence (lines.py), detected symbols do
ConfidenceOf(kind) == IF kind = "junction" THEN None ELSE Some(74)

XNodeLists ==
    UNION { { [k \in 1..n |->
                 [Node(SymbolIds[k], c[k][1], c[k][2], BBox(10, 20, 30, 40),
                       ConfidenceOf(c[k][1])) EXCEPT !.tag = c[k][3]]] :
              c \in [1..n -> NodeKinds \X Types \X Tags] } : n \in 0..MaxVNodes }

XEdgeLists ==
    UNION { { [k \in 1..n |->
                 [Edge(LineIds[k], c[k][1], <<A, B>>) EXCEPT
                    !.label = c[k][2], !.endpoints = <<c[k][3], c[k][4]>>]] :
              c \in [1..n -> EdgeKinds \X {None, Some("L-1")} \X VEndpoints
                             \X VEndpoints] } :
            n \in 0..MaxVEdges }

\* issues of a final graph: the detector's first, then the validator's
FinalIssues ==
    {<<>>,
     <<UnknownSymbolIssue,
       Issue(IssueId(0), "warn", MissingLabel, Some(LineIds[1]))>>}

InitX ==
    \E ns \in XNodeLists, es \in XEdgeLists, is \in FinalIssues :
        /\ RefersTo(es, ns)
        /\ nodes = ns
        /\ edges = es
        /\ texts = <<>>
        /\ issues = is
        /\ unassigned_texts = <<>>
        /\ pc = "combined"
        /\ i = 0
        /\ returned = <<>>
        /\ symbol_issues = <<>>
        /\ consumed = <<>>
        /\ calls = 1
        /\ exported = NotExported
        /\ tag_text = <<>>
        /\ instrument_tag = NoTag
        /\ temp_dir = <<>>
        /\ response = NoResponse
        /\ input = NoRun.input
        /\ other = NoRun
        /\ local_issues = <<<<>>, 0>>

NextX ==
    \/ ExportJson
    \/ ExportCsv

SpecX == InitX /\ [][NextX]_vars

-----------------------------------------------------------------------------
(* tagging.py: parse_isa_tag.  A string is a sequence of one-character
   strings. *)

UpperLetters ==
    <<"A", "B", "C", "D", "E", "F", "G", "H", "I", "J", "K", "L", "M", "N",
      "O", "P", "Q", "R", "S", "T", "U", "V", "W", "X", "Y", "Z">>

LowerLetters ==
    <<"a", "b", "c", "d", "e", "f", "g", "h", "i", "j", "k", "l", "m", "n",
      "o", "p", "q", "r", "s", "t", "u", "v", "w", "x", "y", "z">>

Digits == <<"0", "1", "2", "3", "4", "5", "6", "7", "8", "9">>

\* the characters str.strip() removes, as far as the inputs have them
Whitespace == {" "}

Range(seq) == {seq[k] : k \in 1..Len(seq)}

IndexOf(c, seq) == CHOOSE k \in 1..Len(seq) : seq[k] = c

\* str.upper(), character by character
UpperChar(c) ==
    IF c \in Range(LowerLetters) THEN UpperLetters[IndexOf(c, LowerLetters)]
    ELSE c

upper(s) == [k \in 1..Len(s) |-> UpperChar(s[k])]

RECURSIVE lstrip(_)
lstrip(s) ==
    IF s /= <<>> /\ s[1] \in Whitespace THEN lstrip(Tail(s)) ELSE s

RECURSIVE rstrip(_)
rstrip(s) ==
    IF s /= <<>> /\ s[Len(s)] \in Whitespace
    THEN rstrip(SubSeq(s, 1, Len(s) - 1))
    ELSE s

\* mutation of strip: only the leading whitespace removed
stripLeft(s) == lstrip(s)

\* str.strip()
strip(s) == rstrip(lstrip(s))

\* the repetition limits of ISA_TAG_REGEX: [A-Z]{1,4}, \d{1,5}, [A-Z]{1,4}
MaxLoopLetters == 4
MaxLoopDigits == 5
MaxModifiers == 4

\* a greedy repetition {.., max}: how many characters of the class follow
\* position k - 1, max at most
RECURSIVE Run(_, _, _, _)
Run(s, k, class, max) ==
    IF max = 0 \/ k > Len(s) THEN 0
    ELSE IF s[k] \in class THEN 1 + Run(s, k + 1, class, max - 1)
         ELSE 0

\* ISA_TAG_REGEX.match(s): None, or the three groups of the match (the third
\* one None when the suffix is absent).  Each repetition is followed by a
\* character outside its class or by the end, so the greedy match is the
\* only one.
ISA_TAG_REGEX(s) ==
    LET l == Run(s, 1, Range(UpperLetters), MaxLoopLetters)
        h == IF l + 1 <= Len(s) /\ s[l + 1] = "-" THEN 1 ELSE 0
        d == Run(s, l + h + 1, Range(Digits), MaxLoopDigits)
        m == Run(s, l + h + d + 1, Range(UpperLetters), MaxModifiers)
    IN  IF l >= 1 /\ d >= 1 /\ l + h + d + m = Len(s)
        THEN Some(<<SubSeq(s, 1, l), SubSeq(s, l + h + 1, l + h + d),
                    IF m = 0 THEN None
                    ELSE Some(SubSeq(s, l + h + d + 1, Len(s)))>>)
        ELSE None

\* int(groups[1]) of a string of decimal digits
RECURSIVE int(_)
int(s) ==
    IF s = <<>> THEN 0
    ELSE 10 * int(SubSeq(s, 1, Len(s) - 1)) + (IndexOf(s[Len(s)], Digits) - 1)

\* mutation of ModifiersOf: no list when there is no suffix
ModifiersOrNull(modifiers_str) ==
    IF Falsy(modifiers_str) THEN None ELSE Some(Val(modifiers_str))

\* modifiers = list(modifiers_str) if modifiers_str else []
ModifiersOf(modifiers_str) ==
    IF Falsy(modifiers_str) THEN Some(<<>>) ELSE Some(Val(modifiers_str))

\* mutation of RawTag: the text that was matched
RawTagMatched(text) == upper(strip(text))

\* rawTag=text
RawTag(text) == text

parse_isa_tag(text) ==
    LET match == ISA_TAG_REGEX(upper(strip(text)))
    IN  IF IsNone(match)
        THEN InstrumentTag(RawTag(text), None, None, None, FALSE)
        ELSE LET groups == Val(match)
                 modifiers_str == groups[3]
             IN  InstrumentTag(RawTag(text), Some(groups[1]),
                               Some(int(groups[2])), ModifiersOf(modifiers_str),
                               TRUE)

\* the call parse_isa_tag(text)
ParseTag ==
    /\ pc = "tagging"
    /\ instrument_tag' = parse_isa_tag(tag_text)
    /\ pc' = "tagged"
    /\ UNCHANGED <<nodes, edges, texts, issues, unassigned_texts, i, returned,
                   symbol_issues, consumed, calls, exported, tag_text>>
    /\ UNCHANGED <<temp_dir, response>>
    /\ UNCHANGED <<input, other, local_issues>>

\* the strings tried: padding, letters, a separator, digits, a suffix,
\* padding, each part possibly missing and possibly too long
MaxLetters == 5
MaxHyphens == 2
MaxDigits == 6
MaxSuffix == 5

Paddings == {<<>>, <<" ">>, <<"!">>}

LetterPool == <<"F", "I", "C", "H", "A", "L", "T", "P">>

Letters(n, lower) ==
    [k \in 1..n |->
        IF lower THEN LowerLetters[IndexOf(LetterPool[k], UpperLetters)]
        ELSE LetterPool[k]]

DigitPool == <<"1", "0", "2", "3", "4", "5", "6", "7", "8">>

Numerals(n, zero) == [k \in 1..n |-> IF zero /\ k = 1 THEN "0" ELSE DigitPool[k]]

Separators == {[k \in 1..n |-> "-"] : n \in 0..MaxHyphens} \cup {<<" ">>}

TagTexts ==
    {p \o Letters(l, lower) \o h \o Numerals(d, zero) \o Letters(m, lower) \o q :
        p \in Paddings, l \in 0..MaxLetters, lower \in BOOLEAN,
        h \in Separators, d \in 0..MaxDigits, zero \in BOOLEAN,
        m \in 0..MaxSuffix, q \in Paddings}

\* the two tags the specification works through
ExampleTexts ==
    {<<"F", "I", "C", "-", "1", "0", "1">>,
     <<"P", "S", "H", "H", "-", "1", "2", "A">>}

InitT ==
    \E text \in TagTexts \cup ExampleTexts :
        /\ tag_text = text
        /\ instrument_tag = NoTag
        /\ temp_dir = <<>>
        /\ response = NoResponse
        /\ input = NoRun.input
        /\ other = NoRun
        /\ local_issues = <<<<>>, 0>>
        /\ pc = "tagging"
        /\ nodes = <<>>
        /\ edges = <<>>
        /\ texts = <<>>
        /\ issues = <<>>
        /\ unassigned_texts = <<>>
        /\ i = 0
        /\ returned = <<>>
        /\ symbol_issues = <<>>
        /\ consumed = <<>>
        /\ calls = 0
        /\ exported = NotExported

NextT == ParseTag

SpecT == InitT /\ [][NextT]_vars

-----------------------------------------------------------------------------
(* The pipeline of the endpoints (main.py analyze_image, export_data,
   rag_query): detection, OCR, line extraction, assemble_graph, the tagging
   pass, validate_graph, the concatenation of the issues *)

\* the characters of the text contents
Chars(content) ==
    CASE content = "TANK-101" -> <<"T", "A", "N", "K", "-", "1", "0", "1">>
      [] content = "FIC-101" -> <<"F", "I", "C", "-", "1", "0", "1">>
      [] content = "PSHH-12A" -> <<"P", "S", "H", "H", "-", "1", "2", "A">>
      [] content = "P-7" -> <<"P", "-", "7">>
      [] OTHER -> <<>>

\* if node.tag: parsed_tag = parse_isa_tag(node.tag)
\*              if parsed_tag.isParsed: node.attributes['parsed_tag'] = ...
TaggedNode(node) ==
    IF Falsy(node.tag) THEN node
    ELSE LET parsed_tag == parse_isa_tag(Chars(Val(node.tag)))
         IN  IF parsed_tag.isParsed
             THEN [node EXCEPT !.attributes = Some(parsed_tag)]
             ELSE node

\* for node in initial_graph.nodes: ...
ParseTags ==
    /\ pc = "assembled"
    /\ nodes' = [k \in 1..Len(nodes) |-> TaggedNode(nodes[k])]
    /\ pc' = "parsed"
    /\ UNCHANGED <<edges, texts, issues, unassigned_texts, i, returned,
                   symbol_issues, consumed, calls, exported, tag_text,
                   instrument_tag>>
    /\ UNCHANGED <<temp_dir, response>>
    /\ UNCHANGED <<input, other, local_issues>>

\* validation_issues = validate.validate_graph(initial_graph)
ValidateGraph ==
    /\ pc = "parsed"
    /\ ValidateCall

\* mutation of JunctionsOf: both junctions of a line on its first point
JunctionsOnStart(lines) ==
    [k \in 1..(2 * Len(lines)) |->
        Node(JunctionIds[k], "junction", None,
             JunctionBox(lines[(k + 1) \div 2].polyline[1]), None)]

\* lines.py extract_lines_and_junctions: two junctions per line, on its two
\* points, numbered in line order
JunctionsOf(lines) ==
    [k \in 1..(2 * Len(lines)) |->
        Node(JunctionIds[k], "junction", None,
             JunctionBox(lines[(k + 1) \div 2].polyline[2 - (k % 2)]), None)]

\* lines.py: each detected line is a segment of two points
ExtractedLines ==
    UNION { { [k \in 1..n |-> Edge(LineIds[k], "process", pl[k])] :
              pl \in [1..n -> {<<A, B>>, <<B, B>>, <<B, A>>}] } :
            n \in 0..MaxLines }

InitP ==
    \E symbols \in SymbolLists, line_edges \in ExtractedLines, ts \in TextLists :
        /\ nodes = GraphNodes(symbols, JunctionsOf(line_edges))
        /\ edges = line_edges
        /\ texts = ts
        /\ issues = <<>>
        /\ unassigned_texts = ts
        /\ pc = "nodes"
        /\ i = 1
        /\ returned = <<>>
        /\ symbol_issues = DetectorIssues(symbols)
        /\ consumed = <<>>
        /\ calls = 0
        /\ exported = NotExported
        /\ tag_text = <<>>
        /\ instrument_tag = NoTag
        /\ temp_dir = <<>>
        /\ response = NoResponse
        /\ input = Graph(nodes, edges, texts)
        /\ other = NoRun
        /\ local_issues = <<<<>>, 0>>

NextP ==
    \/ AssignNodeTag
    \/ NodesDone
    \/ AssignEdgeLabel
    \/ LabelsDone
    \/ ConnectEdge
    \/ ReturnGraph
    \/ ParseTags
    \/ ValidateGraph
    \/ Combine

SpecP == InitP /\ [][NextP]_vars

-----------------------------------------------------------------------------
(* main.py: the endpoints /ingest (/upload), /analyze and /run/{type} and the
   directory TEMP_DIR they share.  An image id is a number, a uuid4 being
   new each time. *)

MaxUploads == 2

\* the content types and file name extensions of the uploads tried
ContentTypes == {"image/png", "image/gif", "application/pdf", "text/plain"}
FileExts == {".png", ".jpeg", ".pdf", ".gif", ""}

\* file.content_type.startswith('image/')
IsImage(content_type) == content_type \in {"image/png", "image/gif"}

\* ingest_image: neither of the two 415 conditions holds
Accepted(content_type) ==
    IsImage(content_type) \/ content_type = "application/pdf"

\* image_id = str(uuid.uuid4())
NewId(dir) == Cardinality({dir[k][1] : k \in 1..Len(dir)}) + 1

\* the endpoint's answer
HttpResponse(endpoint, type, status, image_id, stages) ==
    [endpoint |-> endpoint, type |-> type, status |-> status,
     image_id |-> image_id, stages |-> stages]

\* for ext in ['.png', '.jpg', '.jpeg', '.pdf']
SearchExts == <<".png", ".jpg", ".jpeg", ".pdf">>

\* os.path.exists(os.path.join(TEMP_DIR, f"{image_id}{ext}"))
Exists(dir, image_id, ext) == \E k \in 1..Len(dir) : dir[k] = <<image_id, ext>>

\* the first extension of the search list under which the image is stored
RECURSIVE FindFile(_, _, _)
FindFile(dir, image_id, k) ==
    IF k > Len(SearchExts) THEN None
    ELSE IF Exists(dir, image_id, SearchExts[k]) THEN Some(SearchExts[k])
         ELSE FindFile(dir, image_id, k + 1)

\* what a request that needs the graph of an image comes to: the status, the
\* stages run and TEMP_DIR afterwards.  rasterized says whether
\* pdf.rasterize_pdf_to_image succeeds, which writes {image_id}.png.
RunPipeline(dir, image_id, rasterized) ==
    LET ext == FindFile(dir, image_id, 1)
    IN  IF IsNone(ext)
        THEN [status |-> 404, stages |-> <<>>, dir |-> dir]
        ELSE IF Val(ext) = ".pdf"
             THEN IF rasterized
                  THEN [status |-> 200, stages |-> <<"rasterize", "pipeline">>,
                        dir |-> Append(dir, <<image_id, ".png">>)]
                  ELSE [status |-> 500, stages |-> <<"rasterize">>,
                        dir |-> dir]
             ELSE [status |-> 200, stages |-> <<"pipeline">>, dir |-> dir]

\* export_data with format "json" or "csv"
RunExport(dir, image_id, rasterized) ==
    LET r == RunPipeline(dir, image_id, rasterized)
    IN  IF r.status = 200 THEN [r EXCEPT !.stages = Append(@, "export")]
        ELSE r

\* run_analysis: `except Exception as e: raise HTTPException(status_code=500`
\* around the dispatch; HTTPException is an Exception
Caught(r) == IF r.status /= 200 THEN [r EXCEPT !.status = 500] ELSE r

\* the dispatch of run_analysis on the type
Dispatch(dir, type, image_id, rasterized) ==
    IF type = "export" THEN Caught(RunExport(dir, image_id, rasterized))
    ELSE IF type \in {"validate", "ocr", "graph"}
         THEN Caught(RunPipeline(dir, image_id, rasterized))
         ELSE Caught([status |-> 400, stages |-> <<>>, dir |-> dir])

\* POST /ingest and POST /upload
Ingest ==
    /\ NewId(temp_dir) <= MaxUploads
    /\ \E content_type \in ContentTypes, file_extension \in FileExts :
          IF Accepted(content_type)
          THEN /\ temp_dir' = Append(temp_dir, <<NewId(temp_dir), file_extension>>)
               /\ response' = HttpResponse("ingest", "", 200, NewId(temp_dir), <<>>)
          ELSE /\ temp_dir' = temp_dir
               /\ response' = HttpResponse("ingest", "", 415, 0, <<>>)
    /\ UNCHANGED <<nodes, edges, texts, issues, unassigned_texts, pc, i,
                   returned, symbol_issues, consumed, calls, exported,
                   tag_text, instrument_tag>>
    /\ UNCHANGED <<input, other, local_issues>>

\* POST /analyze
Analyze ==
    /\ \E image_id \in 1..(MaxUploads + 1), rasterized \in BOOLEAN :
          LET r == RunPipeline(temp_dir, image_id, rasterized)
          IN  /\ temp_dir' = r.dir
              /\ response' = HttpResponse("analyze", "", r.status, image_id,
                                          r.stages)
    /\ UNCHANGED <<nodes, edges, texts, issues, unassigned_texts, pc, i,
                   returned, symbol_issues, consumed, calls, exported,
                   tag_text, instrument_tag>>
    /\ UNCHANGED <<input, other, local_issues>>

RunTypes == {"export", "validate", "ocr", "graph", "symbols", "EXPORT"}

\* POST /run/{type}
RunAnalysis ==
    /\ \E type \in RunTypes, rasterized \in BOOLEAN :
          IF temp_dir = <<>>
          THEN /\ temp_dir' = temp_dir
               /\ response' = HttpResponse("run", type, 404, 0, <<>>)
          ELSE LET image_id == temp_dir[Len(temp_dir)][1]
                   r == Dispatch(temp_dir, type, image_id, rasterized)
               IN  /\ temp_dir' = r.dir
                   /\ response' = HttpResponse("run", type, r.status, image_id,
                                               r.stages)
    /\ UNCHANGED <<nodes, edges, texts, issues, unassigned_texts, pc, i,
                   returned, symbol_issues, consumed, calls, exported,
                   tag_text, instrument_tag>>
    /\ UNCHANGED <<input, other, local_issues>>

InitH ==
    /\ temp_dir = <<>>
    /\ response = NoResponse
    /\ input = NoRun.input
    /\ other = NoRun
    /\ local_issues = <<<<>>, 0>>
    /\ nodes = <<>>
    /\ edges = <<>>
    /\ texts = <<>>
    /\ issues = <<>>
    /\ unassigned_texts = <<>>
    /\ pc = "serving"
    /\ i = 0
    /\ returned = <<>>
    /\ symbol_issues = <<>>
    /\ consumed = <<>>
    /\ calls = 0
    /\ exported = NotExported
    /\ tag_text = <<>>
    /\ instrument_tag = NoTag

NextH ==
    \/ Ingest
    \/ Analyze
    \/ RunAnalysis

SpecH == InitH /\ [][NextH]_vars

-----------------------------------------------------------------------------
(* Two calls interleaved: each runs assemble_graph and then validate_graph
   on objects of its own; where one is suspended, the other goes on *)

MaxRNodes == 1
MaxRLines == 1

\* mutation of Local: the variable is module-level, and a call that is
\* resumed finds what the call that ran meanwhile has left in it
ModuleLevel(own, running) == running

\* unassigned_texts (graph.py), issues and issue_counter (validate.py) are
\* assigned in the function body: each call has its own
Local(own, running) == own

\* the running call is suspended and the other one resumed
Switch ==
    /\ other.pc \notin {"none", "validated", "error"}
    /\ other' = Frame(input, nodes, edges, texts, issues, unassigned_texts,
                      pc, i, returned, consumed, calls, local_issues)
    /\ input' = other.input
    /\ nodes' = other.nodes
    /\ edges' = other.edges
    /\ texts' = other.texts
    /\ issues' = other.issues
    /\ unassigned_texts' = Local(other.unassigned_texts, unassigned_texts)
    /\ pc' = other.pc
    /\ i' = other.i
    /\ returned' = other.returned
    /\ consumed' = other.consumed
    /\ calls' = other.calls
    /\ local_issues' = Local(other.local_issues, local_issues)
    /\ UNCHANGED <<symbol_issues, exported, tag_text, instrument_tag,
                   temp_dir, response>>

\* issues = []; issue_counter = 0; Rule 1: `for edge in graph.edges`
ValidateRule1 ==
    /\ pc = "assembled"
    /\ local_issues' = Rule1(edges, 1, NoIssues)
    /\ pc' = "rule2"
    /\ UNCHANGED <<nodes, edges, texts, issues, unassigned_texts, i,
                   returned, symbol_issues, consumed, calls, exported,
                   tag_text, instrument_tag, temp_dir, response, input,
                   other>>

\* Rule 2: the second `for edge in graph.edges`
ValidateRule2 ==
    /\ pc = "rule2"
    /\ local_issues' = Rule2(edges, 1, local_issues)
    /\ pc' = "rule3"
    /\ UNCHANGED <<nodes, edges, texts, issues, unassigned_texts, i,
                   returned, symbol_issues, consumed, calls, exported,
                   tag_text, instrument_tag, temp_dir, response, input,
                   other>>

\* Rule 3: `for node in graph.nodes`
ValidateRule3 ==
    /\ pc = "rule3"
    /\ local_issues' = Rule3(nodes, 1, local_issues)
    /\ pc' = "return"
    /\ UNCHANGED <<nodes, edges, texts, issues, unassigned_texts, i,
                   returned, symbol_issues, consumed, calls, exported,
                   tag_text, instrument_tag, temp_dir, response, input,
                   other>>

\* graph.issues = issues; return issues
ValidateReturn ==
    /\ pc = "return"
    /\ issues' = StoredIssues(issues, local_issues[1])
    /\ returned' = local_issues[1]
    /\ pc' = "validated"
    /\ calls' = IF calls < MaxCalls THEN calls + 1 ELSE calls
    /\ UNCHANGED <<nodes, edges, texts, unassigned_texts, i, symbol_issues,
                   consumed, exported, tag_text, instrument_tag, temp_dir,
                   response, input, other, local_issues>>

\* the graphs of the first call: symbols and junctions, lines, and none,
\* one or two texts
FirstGraphs ==
    {Graph(GraphNodes(c[1], c[2]), c[3], c[4]) :
        c \in {d \in SymbolLists \X JunctionLists \X LineLists \X
                      {<<>>,
                       <<Text(TextIds[1], TextContents[1], BBox(40, -5, 20, 10))>>,
                       <<Text(TextIds[1], TextContents[1], BBox(50, 70, 20, 20)),
                         Text(TextIds[2], TextContents[2], BBox(70, 35, 20, 10))>>} :
                  /\ Len(d[1]) + Len(d[2]) <= MaxRNodes
                  /\ Len(d[3]) <= MaxRLines}}

\* the graph of the second call: a pump, a junction at B, a line from A to
\* B and two texts; its ids are those of the first call's objects, as every
\* image numbers its symbols, lines and texts from 0
SecondGraph ==
    Graph(<<Node(SymbolIds[1], "equipment", Some("pump"), BBox(20, 30, 20, 20),
                 Some(74)),
            Node(JunctionIds[1], "junction", None, JunctionBox(B), None)>>,
          <<Edge(LineIds[1], "process", <<A, B>>)>>,
          <<Text(TextIds[1], TextContents[3], BBox(100, -5, 20, 10)),
            Text(TextIds[2], TextContents[4], BBox(40, -5, 20, 10))>>)

InitR ==
    \E graph \in FirstGraphs :
        /\ nodes = graph.nodes
        /\ edges = graph.edges
        /\ texts = graph.texts
        /\ issues = <<>>
        /\ unassigned_texts = graph.texts
        /\ pc = "nodes"
        /\ i = 1
        /\ returned = <<>>
        /\ symbol_issues = <<>>
        /\ consumed = <<>>
        /\ calls = 0
        /\ exported = NotExported
        /\ tag_text = <<>>
        /\ instrument_tag = NoTag
        /\ temp_dir = <<>>
        /\ response = NoResponse
        /\ input = graph
        /\ other = Frame(SecondGraph, SecondGraph.nodes, SecondGraph.edges,
                         SecondGraph.texts, <<>>, SecondGraph.texts, "nodes",
                         1, <<>>, <<>>, 0, NoIssues)
        /\ local_issues = NoIssues

NextR ==
    \/ AssignNodeTag
    \/ NodesDone
    \/ AssignEdgeLabel
    \/ LabelsDone
    \/ ConnectEdge
    \/ ReturnGraph
    \/ ValidateRule1
    \/ ValidateRule2
    \/ ValidateRule3
    \/ ValidateReturn
    \/ Switch

SpecR == InitR /\ [][NextR]_vars

-----------------------------------------------------------------------------
(* Vocabulary of the properties: distances stated directly on the boxes and  *)
(* points, in px, as 4*d*d                                                   *)

Sq(n) == n * n
CX2(bbox) == 2 * bbox.x + bbox.w
CY2(bbox) == 2 * bbox.y + bbox.h

\* centre of box b1 to centre of box b2
BoxToBox(b1, b2) == Sq(CX2(b1) - CX2(b2)) + Sq(CY2(b1) - CY2(b2))

\* point p to the centre of box b
PointToBox(p, b) == Sq(2 * p[1] - CX2(b)) + Sq(2 * p[2] - CY2(b))

\* midpoint of p and q to the centre of box b
MidToBox(p, q, b) == Sq(p[1] + q[1] - CX2(b)) + Sq(p[2] + q[2] - CY2(b))

Px100 == 4 * 100 * 100
Px50 == 4 * 50 * 50

\* the earliest index of Cand at minimal distance D
Nearest(Cand, D(_)) ==
    CHOOSE k \in Cand : \A j \in Cand : D(k) < D(j) \/ (D(k) = D(j) /\ k <= j)

\* seq without its k-th element
Without(seq, k) == [j \in 1..(Len(seq) - 1) |-> IF j < k THEN seq[j] ELSE seq[j + 1]]

Returned == pc \in {"assembled", "validated", "combined"}

-----------------------------------------------------------------------------
(* C1: the node phase handles graph.nodes in order; the node at hand gets   *)
(* the content of the nearest pool text strictly closer than 100 px, the    *)
(* earliest of the pool on ties, and that text leaves the pool; with no     *)
(* pool text inside 100 px the tag and the pool stay as they are.           *)

C1_NodeStep ==
    LET D(k) == BoxToBox(nodes[i].bbox, unassigned_texts[k].bbox)
        Cand == {k \in 1..Len(unassigned_texts) : D(k) < Px100}
    IN  /\ i' = i + 1
        /\ \A j \in 1..Len(nodes) : j /= i => nodes'[j] = nodes[j]
        /\ IF Cand = {}
           THEN /\ nodes'[i].tag = nodes[i].tag
                /\ unassigned_texts' = unassigned_texts
           ELSE /\ nodes'[i].tag = Some(unassigned_texts[Nearest(Cand, D)].content)
                /\ unassigned_texts' = Without(unassigned_texts, Nearest(Cand, D))

C1_NodeTagNearest == [][AssignNodeTag => C1_NodeStep]_vars

\* a node was tagged while another node, with a pool text at exactly 100 px,
\* stayed untagged
C1_Witness ==
    /\ pc = "labels"
    /\ \E a, b \in 1..Len(nodes) :
        /\ ~IsNone(nodes[a].tag)
        /\ IsNone(nodes[b].tag)
        /\ \E k \in 1..Len(unassigned_texts) :
               BoxToBox(nodes[b].bbox, unassigned_texts[k].bbox) = Px100

-----------------------------------------------------------------------------
(* C2: at most one consumer: the tagged nodes and labelled edges map        *)
(* injectively to distinct input texts, so their number never exceeds the   *)
(* number of texts.                                                         *)

Tagged == {k \in 1..Len(nodes) : ~IsNone(nodes[k].tag)}
Labelled == {k \in 1..Len(edges) : ~IsNone(edges[k].label)}
TextOfId(id) == CHOOSE t \in {texts[k] : k \in 1..Len(texts)} : t.id = id

C2_AtMostOneConsumer ==
    /\ \A a, b \in 1..Len(consumed) :
           a /= b => /\ consumed[a][2] /= consumed[b][2]
                     /\ consumed[a][1] /= consumed[b][1]
    /\ \A k \in Tagged : \E a \in 1..Len(consumed) :
           /\ consumed[a][1] = nodes[k].id
           /\ nodes[k].tag = Some(TextOfId(consumed[a][2]).content)
    /\ \A k \in Labelled : \E a \in 1..Len(consumed) :
           /\ consumed[a][1] = edges[k].id
           /\ edges[k].label = Some(TextOfId(consumed[a][2]).content)
    /\ Cardinality(Tagged) + Cardinality(Labelled) = Len(consumed)
    /\ Cardinality(Tagged) + Cardinality(Labelled) <= Len(texts)

\* two texts lie inside 100 px of the first node, and both were consumed,
\* one of them by another node or edge
C2_Witness ==
    /\ Returned
    /\ Len(consumed) = 2
    /\ Len(nodes) >= 1
    /\ \A k \in 1..Len(texts) : BoxToBox(nodes[1].bbox, texts[k].bbox) < Px100

-----------------------------------------------------------------------------
(* C3: each end of an edge is resolved on its own against all nodes:        *)
(* endpoints[0] is the id of the node nearest to polyline[0], the earliest  *)
(* in graph.nodes on ties, iff that distance is strictly below 50 px, and   *)
(* null otherwise; the same for endpoints[1] and polyline[-1].              *)

\* the connect loop has handled edge k
Resolved(k) == Returned \/ (pc = "connect" /\ k < i)

ExpectedEndpoint(p) ==
    LET D(k) == PointToBox(p, nodes[k].bbox)
        Cand == 1..Len(nodes)
    IN  IF Cand /= {} /\ D(Nearest(Cand, D)) < Px50
        THEN Some(nodes[Nearest(Cand, D)].id)
        ELSE None

C3_EndpointsNearest ==
    \A k \in 1..Len(edges) :
        Resolved(k) =>
            /\ edges[k].endpoints[1] = ExpectedEndpoint(edges[k].polyline[1])
            /\ edges[k].endpoints[2] =
                   ExpectedEndpoint(edges[k].polyline[Len(edges[k].polyline)])

\* both slots of an edge hold the same node id, a junction listed after a
\* symbol
C3_Witness ==
    /\ Returned
    /\ \E k \in 1..Len(edges) :
        /\ ~IsNone(edges[k].endpoints[1])
        /\ edges[k].endpoints[1] = edges[k].endpoints[2]
        /\ Len(nodes) >= 2
        /\ edges[k].endpoints[1] = Some(nodes[2].id)

-----------------------------------------------------------------------------
(* C4: every edge with two or more points passes the label phase with the   *)
(* label taken from the midpoint of its first and last point: the content   *)
(* of the nearest pool text strictly closer than 50 px, the earliest on     *)
(* ties, which leaves the pool; otherwise the label stays as it is.         *)

C4_LabelStep ==
    LET pl == edges[i].polyline
        D(k) == MidToBox(pl[1], pl[Len(pl)], unassigned_texts[k].bbox)
        Cand == {k \in 1..Len(unassigned_texts) : D(k) < Px50}
    IN  /\ pc' /= "error"
        /\ IF Cand = {}
           THEN /\ edges'[i].label = edges[i].label
                /\ unassigned_texts' = unassigned_texts
           ELSE /\ edges'[i].label = Some(unassigned_texts[Nearest(Cand, D)].content)
                /\ unassigned_texts' = Without(unassigned_texts, Nearest(Cand, D))

C4_LabelFromMidpoint ==
    [][(AssignEdgeLabel /\ Len(edges[i].polyline) >= 2) => C4_LabelStep]_vars

-----------------------------------------------------------------------------
(* C5: in the returned graph every non-null endpoint of every edge is the   *)
(* id of a node of graph.nodes.                                             *)

NodeIdsOfGraph == {nodes[k].id : k \in 1..Len(nodes)}

C5_EndpointsReferToNodes ==
    Returned =>
        \A k \in 1..Len(edges) : \A s \in 1..2 :
            ~IsNone(edges[k].endpoints[s]) =>
                Val(edges[k].endpoints[s]) \in NodeIdsOfGraph

\* a returned graph with an edge resolved at one end and null at the other
C5_Witness ==
    /\ pc = "assembled"
    /\ \E k \in 1..Len(edges) :
        /\ ~IsNone(edges[k].endpoints[1])
        /\ IsNone(edges[k].endpoints[2])

-----------------------------------------------------------------------------
(* Vocabulary of the validation properties *)

\* validate_graph has run on the graph as it is, and `returned` is its result
Validated == pc \in {"validated", "combined"}

\* positions in `returned` of the issues on target id with message msg
IssuesOn(id, severity, msg) ==
    {k \in 1..Len(returned) :
        /\ returned[k].targetId = Some(id)
        /\ returned[k].severity = severity
        /\ returned[k].message = msg}

StartIssues(edge) == IssuesOn(edge.id, "warn", DanglingStart)
EndIssues(edge) == IssuesOn(edge.id, "warn", DanglingEnd)
R2Count(edge) == Cardinality(StartIssues(edge)) + Cardinality(EndIssues(edge))

\* point p is farther than 50 px from the centre of every node
Far(p) == \A k \in 1..Len(nodes) : PointToBox(p, nodes[k].bbox) > Px50

\* point p is within 50 px (50 px or less) of the centre of some node
Within50(p) == \E k \in 1..Len(nodes) : PointToBox(p, nodes[k].bbox) <= Px50

\* point p is strictly closer than 50 px to the centre of some node
Inside50(p) == \E k \in 1..Len(nodes) : PointToBox(p, nodes[k].bbox) < Px50

First(edge) == edge.polyline[1]
Last(edge) == edge.polyline[Len(edge.polyline)]

-----------------------------------------------------------------------------
(* C6 as stated: after assemble and validate, an edge with both ends        *)
(* farther than 50 px from every node has exactly two R2 issues (start and  *)
(* end), and an edge with one end within 50 px of some node and the other   *)
(* end farther than 50 px from every node has exactly one, for the far end. *)

C6_AsStated ==
    Validated =>
        \A k \in 1..Len(edges) :
            LET e == edges[k]
            IN  /\ (Far(First(e)) /\ Far(Last(e))) =>
                       /\ Cardinality(StartIssues(e)) = 1
                       /\ Cardinality(EndIssues(e)) = 1
                /\ (Within50(First(e)) /\ Far(Last(e))) =>
                       /\ Cardinality(StartIssues(e)) = 0
                       /\ Cardinality(EndIssues(e)) = 1
                /\ (Far(First(e)) /\ Within50(Last(e))) =>
                       /\ Cardinality(StartIssues(e)) = 1
                       /\ Cardinality(EndIssues(e)) = 0

(* C6 amended: the near end is strictly closer than 50 px to some node; an  *)
(* end at exactly 50 px of its nearest node is dangling too.                *)

C6_DanglingCounts ==
    Validated =>
        \A k \in 1..Len(edges) :
            LET e == edges[k]
            IN  /\ (Far(First(e)) /\ Far(Last(e))) =>
                       /\ Cardinality(StartIssues(e)) = 1
                       /\ Cardinality(EndIssues(e)) = 1
                /\ (Inside50(First(e)) /\ Far(Last(e))) =>
                       /\ Cardinality(StartIssues(e)) = 0
                       /\ Cardinality(EndIssues(e)) = 1
                /\ (Far(First(e)) /\ Inside50(Last(e))) =>
                       /\ Cardinality(StartIssues(e)) = 1
                       /\ Cardinality(EndIssues(e)) = 0

\* a validated edge with its start inside 50 px of a node, its end far from
\* every node, and one R2 issue
C6_Witness ==
    /\ Validated
    /\ \E k \in 1..Len(edges) :
        /\ Inside50(First(edges[k]))
        /\ Far(Last(edges[k]))
        /\ R2Count(edges[k]) = 1

-----------------------------------------------------------------------------
(* C7: a warn 'dangling start point' issue targets an edge exactly when its *)
(* endpoints[0] is null, and a warn 'dangling end point' issue exactly when *)
(* its endpoints[1] is null, each at most once; both null gives two issues, *)
(* both set gives none.                                                     *)

C7_DanglingIffNull ==
    Validated =>
        \A k \in 1..Len(edges) :
            LET e == edges[k]
            IN  /\ Cardinality(StartIssues(e)) =
                       (IF e.endpoints[1] = None THEN 1 ELSE 0)
                /\ Cardinality(EndIssues(e)) =
                       (IF e.endpoints[2] = None THEN 1 ELSE 0)
                /\ Cardinality(IssuesOn(e.id, "info", DanglingStart)) = 0
                /\ Cardinality(IssuesOn(e.id, "info", DanglingEnd)) = 0

\* an edge with a node id at its start and null at its end, with one R2 issue
C7_Witness ==
    /\ Validated
    /\ \E k \in 1..Len(edges) :
        /\ edges[k].endpoints[1] /= None
        /\ edges[k].endpoints[2] = None
        /\ StartIssues(edges[k]) = {}
        /\ Cardinality(EndIssues(edges[k])) = 1

-----------------------------------------------------------------------------
(* C8: exactly one warn 'Process line is missing a label/tag' issue targets *)
(* every process edge whose label is null or empty, none targets a labelled *)
(* process edge or an edge of another kind; the rule does not depend on R2. *)

C8_MissingLabel ==
    Validated =>
        \A k \in 1..Len(edges) :
            LET e == edges[k]
            IN  Cardinality(IssuesOn(e.id, "warn", MissingLabel)) =
                    (IF e.kind = "process" /\ (e.label = None \/ e.label = Some(""))
                     THEN 1 ELSE 0)

\* a process edge with an empty label and a null end has the R1 issue and an
\* R2 issue
C8_Witness ==
    /\ Validated
    /\ \E k \in 1..Len(edges) :
        /\ edges[k].kind = "process"
        /\ edges[k].label = Some("")
        /\ Cardinality(IssuesOn(edges[k].id, "warn", MissingLabel)) = 1
        /\ Cardinality(EndIssues(edges[k])) = 1

-----------------------------------------------------------------------------
(* C9: one info low-confidence issue targets node n exactly when n is an    *)
(* equipment or an instrument with a confidence strictly below 0.75;        *)
(* junction and unknown nodes, nodes without confidence and nodes at 0.75   *)
(* or more get none.                                                        *)

LowConfidenceIssues(node) ==
    {k \in 1..Len(returned) :
        /\ returned[k].targetId = Some(node.id)
        /\ returned[k].severity = "info"
        /\ returned[k].message[1] = "Low confidence symbol match"}

C9_LowConfidence ==
    Validated =>
        \A k \in 1..Len(nodes) :
            LET n == nodes[k]
            IN  Cardinality(LowConfidenceIssues(n)) =
                    (IF /\ n.kind \in {"equipment", "instrument"}
                        /\ n.confidence /= None
                        /\ n.confidence[1] < 75
                     THEN 1 ELSE 0)

\* an instrument at 0.74 with its issue
C9_Witness ==
    /\ Validated
    /\ \E k \in 1..Len(nodes) :
        /\ nodes[k].kind = "instrument"
        /\ nodes[k].confidence = Some(74)
        /\ Cardinality(LowConfidenceIssues(nodes[k])) = 1

-----------------------------------------------------------------------------
(* C10: after validate, graph.issues is exactly the returned sequence; the  *)
(* issues the graph held before the call are neither kept nor appended to.  *)

C10_IssuesReplaced ==
    pc = "validated" =>
        /\ issues = returned
        /\ \A k \in 1..Len(issues) : issues[k] /= UnknownSymbolIssue

\* validate has run on a graph that held a perception-stage issue and has
\* emitted issues of its own
C10_Witness ==
    /\ pc = "validated"
    /\ symbol_issues = <<UnknownSymbolIssue>>
    /\ Len(issues) >= 2

-----------------------------------------------------------------------------
(* C11: within one validate run the issue ids are pairwise distinct: the    *)
(* issues are numbered issue_0, issue_1, ... in emission order, all R1      *)
(* issues, then all R2, then all R3, from 0 again on every call.            *)

\* the rule an issue of validate_graph comes from
RuleOf(issue) ==
    IF issue.message = MissingLabel THEN 1
    ELSE IF issue.message \in {DanglingStart, DanglingEnd} THEN 2
    ELSE 3

C11_IssueIdsSequential ==
    Validated =>
        /\ \A k \in 1..Len(returned) : returned[k].id = <<"issue", k - 1>>
        /\ \A a, b \in 1..Len(returned) :
               /\ a /= b => returned[a].id /= returned[b].id
               /\ a < b => RuleOf(returned[a]) <= RuleOf(returned[b])

\* a second call on a graph holding other issues gave an R1, an R2 and an R3
\* issue
C11_Witness ==
    /\ pc = "validated"
    /\ calls = 2
    /\ symbol_issues /= <<>>
    /\ \E a, b, c \in 1..Len(returned) :
        /\ RuleOf(returned[a]) = 1
        /\ RuleOf(returned[b]) = 2
        /\ RuleOf(returned[c]) = 3

-----------------------------------------------------------------------------
(* C12: validate called again on a graph with the same nodes and edges      *)
(* returns the same issues, ids included, and leaves graph.issues equal to  *)
(* what the first call left.                                                *)

C12_Idempotent ==
    [][(Validate /\ calls >= 1) => (returned' = returned /\ issues' = returned)]_vars

\* validate has run twice and returned issues
C12_Witness ==
    /\ pc = "validated"
    /\ calls = 2
    /\ Len(returned) >= 2
    /\ issues = returned

-----------------------------------------------------------------------------
(* C13 as stated: on inputs with unique ids and polylines of at least two   *)
(* points, assemble raises no error and returns a graph; what finds no      *)
(* match keeps a null tag, label or endpoint slot.                          *)

C13_NoErrorOnValidInput ==
    (\A k \in 1..Len(edges) : Len(edges[k].polyline) >= 2) => pc /= "error"

-----------------------------------------------------------------------------
(* C14: an edge whose polyline has fewer than two points makes assemble     *)
(* fail: the label loop never gets past such an edge, so no graph is        *)
(* returned with it, and its label and endpoints are never computed.        *)

\* the label loop has handled edge k without raising
Passed(k) == (pc = "labels" /\ k < i) \/ pc = "connect" \/ Returned

C14_ShortPolylineFails ==
    \A k \in 1..Len(edges) :
        Len(edges[k].polyline) < 2 =>
            /\ ~Passed(k)
            /\ edges[k].label = None
            /\ edges[k].endpoints = <<None, None>>

\* assemble has raised on an edge of one point, after a node took a text
C14_Witness ==
    /\ pc = "error"
    /\ Len(edges[i].polyline) = 1
    /\ Len(consumed) >= 1

-----------------------------------------------------------------------------
(* C15: the returned graph has nodes = symbols then junctions, in input     *)
(* order, edges = lines, and texts = all input texts in input order: a text *)
(* consumed as a tag or label has only left the working pool.               *)

C15_GraphKeepsInputs ==
    Returned =>
        /\ \E n \in 0..Len(nodes) :
               /\ \A k \in 1..n :
                      nodes[k].id = SymbolIds[k] /\ nodes[k].kind /= "junction"
               /\ \A k \in (n + 1)..Len(nodes) :
                      nodes[k].id = JunctionIds[k - n] /\ nodes[k].kind = "junction"
        /\ \A k \in 1..Len(edges) : edges[k].id = LineIds[k]
        /\ \A k \in 1..Len(texts) :
               texts[k].id = TextIds[k] /\ texts[k].content = TextContents[k]
        /\ Len(texts) = Len(unassigned_texts) + Len(consumed)
        /\ \A a \in 1..Len(consumed) :
               \E k \in 1..Len(texts) : texts[k].id = consumed[a][2]

\* a returned graph of a symbol and a junction whose two texts were both
\* consumed
C15_Witness ==
    /\ pc = "assembled"
    /\ Len(nodes) = 2
    /\ nodes[1].kind /= "junction"
    /\ nodes[2].kind = "junction"
    /\ Len(texts) = 2
    /\ Len(consumed) = 2


-----------------------------------------------------------------------------
(* Vocabulary of the export properties *)

JsonExported == exported.format = "json"
CsvExported == exported.format = "csv"

\* the positions of the edges with both endpoints non-null
Connected == {k \in 1..Len(edges) : edges[k].endpoints[1] /= None
                                    /\ edges[k].endpoints[2] /= None}

\* the nodes of one kind, in graph order
OfKind(kind) == SelectSeq(nodes, LAMBDA n : n.kind = kind)

\* what the interchange document says of a node
Carried(n) ==
    [id |-> n.id, bbox |-> n.bbox, tag |-> n.tag,
     classRef |-> <<"placeholder/", n.type>>]

Ids(list) == {list[k].id : k \in 1..Len(list)}

-----------------------------------------------------------------------------
\* C16: the interchange document lists every edge of the graph in lines,
\* with its polyline and in graph order, and lists an edge in connections
\* (from_node = endpoints[0], to_node = endpoints[1], line_id = the edge id)
\* if and only if both of its endpoints are non-null, in graph order.
C16_LinesAndConnections ==
    JsonExported =>
        /\ Len(exported.lines) = Len(edges)
        /\ \A k \in 1..Len(edges) :
              /\ exported.lines[k].id = edges[k].id
              /\ exported.lines[k].polyline = edges[k].polyline
        /\ Len(exported.connections) = Cardinality(Connected)
        /\ \A k \in 1..Len(edges) :
              (k \in Connected) <=>
                  \E c \in 1..Len(exported.connections) :
                      exported.connections[c].line_id = edges[k].id
        /\ \A k \in Connected :
              \A c \in 1..Len(exported.connections) :
                  exported.connections[c].line_id = edges[k].id =>
                      /\ exported.connections[c].from_node
                           = edges[k].endpoints[1][1]
                      /\ exported.connections[c].to_node
                           = edges[k].endpoints[2][1]
                      /\ c = Cardinality({j \in Connected : j <= k})

\* an exported graph with an edge connected at both ends and an edge with
\* exactly one null endpoint
C16_Witness ==
    /\ JsonExported
    /\ Len(edges) = 1
    /\ edges[1].endpoints[1] /= None
    /\ edges[1].endpoints[2] = None
    /\ Len(exported.lines) = 1
    /\ exported.connections = <<>>

\* an exported graph whose edge has both endpoints: one connection
C16_WitnessConnected ==
    /\ JsonExported
    /\ Connected /= {}
    /\ Len(exported.connections) = 1

-----------------------------------------------------------------------------
\* C17: in the interchange document every node of kind equipment appears
\* exactly once in equipment and every node of kind instrument exactly once
\* in instruments, in graph order, each with its id, bbox, tag and the
\* classRef "placeholder/<type>"; no node is in both lists and no node of
\* another kind is in either.
C17_EquipmentAndInstruments ==
    JsonExported =>
        /\ exported.equipment
             = [k \in 1..Len(OfKind("equipment")) |->
                  Carried(OfKind("equipment")[k])]
        /\ exported.instruments
             = [k \in 1..Len(OfKind("instrument")) |->
                  Carried(OfKind("instrument")[k])]
        /\ Ids(exported.equipment) \cap Ids(exported.instruments) = {}
        /\ \A k \in 1..Len(nodes) :
              nodes[k].kind \notin {"equipment", "instrument"} =>
                  nodes[k].id \notin
                      Ids(exported.equipment) \cup Ids(exported.instruments)

\* an exported graph with a tagged instrument
C17_Witness ==
    /\ JsonExported
    /\ Len(nodes) = 1
    /\ nodes[1].kind = "instrument"
    /\ nodes[1].tag /= None
    /\ Len(exported.instruments) = 1
    /\ exported.equipment = <<>>

\* an exported graph whose only node is a junction: both lists are empty
C17_WitnessOtherKind ==
    /\ JsonExported
    /\ Len(nodes) = 1
    /\ nodes[1].kind = "junction"
    /\ exported.instruments = <<>>
    /\ exported.equipment = <<>>

-----------------------------------------------------------------------------
\* the field of a table that holds a value which may be null
Field(v) == IF v = None THEN <<>> ELSE v

\* C18: the tabular export returns, for every graph including one with no
\* nodes or no edges, a nodes table with exactly the columns id, kind, type,
\* tag, confidence, bbox_x, bbox_y, bbox_w, bbox_h and an edges table with
\* exactly the columns id, kind, label, direction, from_node, to_node, one
\* row per node / edge in graph order, every null an empty field.
C18_TablesHaveColumns ==
    CsvExported =>
        /\ exported.nodes.columns
             = <<"id", "kind", "type", "tag", "confidence", "bbox_x",
                 "bbox_y", "bbox_w", "bbox_h">>
        /\ exported.edges.columns
             = <<"id", "kind", "label", "direction", "from_node", "to_node">>
        /\ Len(exported.nodes.rows) = Len(nodes)
        /\ Len(exported.edges.rows) = Len(edges)
        /\ \A k \in 1..Len(nodes) :
              /\ exported.nodes.rows[k][1] = <<nodes[k].id>>
              /\ exported.nodes.rows[k][3] = Field(nodes[k].type)
              /\ exported.nodes.rows[k][4] = Field(nodes[k].tag)
              /\ exported.nodes.rows[k][5] = Field(nodes[k].confidence)
        /\ \A k \in 1..Len(edges) :
              /\ exported.edges.rows[k][1] = <<edges[k].id>>
              /\ exported.edges.rows[k][3] = Field(edges[k].label)
              /\ exported.edges.rows[k][5] = Field(edges[k].endpoints[1])
              /\ exported.edges.rows[k][6] = Field(edges[k].endpoints[2])

-----------------------------------------------------------------------------
\* C19: both exports are read-only projections: after either export the
\* graph's nodes, edges, texts and issues are what they were before the
\* call, and the issues section of the interchange document is graph.issues,
\* unmodified and in the same order.
C19_ReadOnly ==
    [][(exported' /= exported) =>
          /\ nodes' = nodes
          /\ edges' = edges
          /\ texts' = texts
          /\ issues' = issues
          /\ (exported'.format = "json" => exported'.issues = issues)]_vars

\* an interchange document of a graph with two issues
C19_Witness ==
    /\ JsonExported
    /\ Len(issues) = 2
    /\ Len(exported.issues) = 2
    /\ Len(nodes) = 1
    /\ Len(edges) = 1

-----------------------------------------------------------------------------
(* Vocabulary of the tag properties *)

TagParsed == pc = "tagged"

\* a string with every lower-case letter replaced by its capital
Upcased(s) ==
    [k \in 1..Len(s) |->
        IF \E j \in 1..26 : LowerLetters[j] = s[k]
        THEN UpperLetters[CHOOSE j \in 1..26 : LowerLetters[j] = s[k]]
        ELSE s[k]]

\* a string without its leading and trailing blanks
Trimmed(s) ==
    LET inked == {k \in 1..Len(s) : s[k] /= " "}
    IN  IF inked = {} THEN <<>>
        ELSE SubSeq(s, CHOOSE k \in inked : \A j \in inked : k <= j,
                       CHOOSE k \in inked : \A j \in inked : j <= k)

Capitals == {UpperLetters[k] : k \in 1..26}
Numbers == {Digits[k] : k \in 1..10}

\* 1 to 4 letters, an optional single hyphen, 1 to 5 digits, an optional
\* suffix of 1 to 4 letters, and nothing else
FullMatch(s) ==
    \E l \in 1..4, h \in 0..1, d \in 1..5, m \in 0..4 :
        /\ l + h + d + m = Len(s)
        /\ \A k \in 1..l : s[k] \in Capitals
        /\ h = 1 => s[l + 1] = "-"
        /\ \A k \in (l + h + 1)..(l + h + d) : s[k] \in Numbers
        /\ \A k \in (l + h + d + 1)..Len(s) : s[k] \in Capitals

Count(s, class) == Cardinality({k \in 1..Len(s) : s[k] \in class})

\* C20 as stated: isParsed is true if and only if the input, converted to
\* uppercase and not normalised otherwise, fully matches the grammar.
C20_AsStated ==
    TagParsed => (instrument_tag.isParsed <=> FullMatch(Upcased(tag_text)))

\* C20: isParsed is true if and only if the input, with its leading and
\* trailing whitespace removed and converted to uppercase, and not normalised
\* otherwise, fully matches: 1 to 4 letters, an optional single hyphen, 1 to
\* 5 digits, an optional suffix of 1 to 4 letters; an input with a second
\* hyphen, six or more digits, five or more leading letters, or a leading or
\* trailing character that is neither whitespace nor of the grammar is not
\* parsed.
C20_ParsedIffMatch ==
    TagParsed =>
        /\ instrument_tag.isParsed <=> FullMatch(Upcased(Trimmed(tag_text)))
        /\ Count(tag_text, {"-"}) >= 2 => ~instrument_tag.isParsed
        /\ Count(tag_text, Numbers) >= 6 => ~instrument_tag.isParsed
        /\ (Len(Trimmed(tag_text)) >= 5
            /\ \A k \in 1..5 : Upcased(Trimmed(tag_text))[k] \in Capitals)
               => ~instrument_tag.isParsed
        /\ (tag_text /= <<>>
            /\ (tag_text[1] = "!" \/ tag_text[Len(tag_text)] = "!"))
               => ~instrument_tag.isParsed

\* a lower-case tag between blanks has been parsed
C20_Witness ==
    /\ TagParsed
    /\ instrument_tag.isParsed
    /\ tag_text[1] = " "
    /\ tag_text[Len(tag_text)] = " "
    /\ Count(tag_text, {"-"}) = 1
    /\ Count(tag_text, {LowerLetters[k] : k \in 1..26}) = 8

-----------------------------------------------------------------------------
\* the characters of a string that belong to a class, in order
Only(s, class) == SelectSeq(s, LAMBDA c : c \in class)

\* the position of the first and of the last digit of a string that has one
FirstDigit(s) ==
    CHOOSE k \in 1..Len(s) : s[k] \in Numbers /\ \A j \in 1..(k - 1) : s[j] \notin Numbers
LastDigit(s) ==
    CHOOSE k \in 1..Len(s) : s[k] \in Numbers /\ \A j \in (k + 1)..Len(s) : s[j] \notin Numbers

\* the value of a decimal digit
DigitValue(c) == CHOOSE v \in 0..9 : Digits[v + 1] = c

RECURSIVE Pow10(_)
Pow10(n) == IF n = 0 THEN 1 ELSE 10 * Pow10(n - 1)

RECURSIVE SumOver(_, _)
SumOver(s, k) ==
    IF k > Len(s) THEN 0
    ELSE DigitValue(s[k]) * Pow10(Len(s) - k) + SumOver(s, k + 1)

\* the integer a string of digits writes
Value(s) == SumOver(s, 1)

C21_WitnessSuffix ==
    /\ TagParsed
    /\ instrument_tag.isParsed
    /\ Len(instrument_tag.modifiers[1]) = 2

-----------------------------------------------------------------------------
\* C22: parse_isa_tag is total: for every input string the step the call
\* takes is its return, with an InstrumentTag; on no match isParsed is false
\* and loopLetters, loopNo and modifiers are null; parsed or not, rawTag is
\* the input exactly as passed.
C22_TotalAndRaw ==
    /\ [][pc = "tagging" =>
            /\ pc' = "tagged"
            /\ instrument_tag'.isParsed \in BOOLEAN
            /\ instrument_tag'.rawTag = tag_text]_vars
    /\ [](TagParsed =>
            /\ instrument_tag.rawTag = tag_text
            /\ instrument_tag.isParsed \in BOOLEAN
            /\ ~instrument_tag.isParsed =>
                  /\ instrument_tag.loopLetters = None
                  /\ instrument_tag.loopNo = None
                  /\ instrument_tag.modifiers = None)

\* a lower-case text between blanks that is no tag has been returned as is
C22_Witness ==
    /\ TagParsed
    /\ ~instrument_tag.isParsed
    /\ Len(tag_text) >= 7
    /\ tag_text[1] = " "
    /\ tag_text[Len(tag_text)] = " "
    /\ Count(tag_text, {LowerLetters[k] : k \in 1..26}) >= 5

\* a lower-case tag between blanks has been parsed and returned as is
C22_WitnessParsed ==
    /\ TagParsed
    /\ instrument_tag.isParsed
    /\ Len(tag_text) >= 3
    /\ tag_text[1] = " "
    /\ Count(tag_text, {LowerLetters[k] : k \in 1..26}) >= 1
    /\ instrument_tag.rawTag[1] = " "

-----------------------------------------------------------------------------
(* Vocabulary of the pipeline properties *)

\* assemble_graph has returned and the caller has gone on
Assembled == pc \in {"assembled", "parsed", "validated", "combined"}

\* the node's tag is a text that fits the tag grammar
HasParsableTag(node) ==
    /\ node.tag /= None
    /\ FullMatch(Upcased(Trimmed(Chars(node.tag[1]))))

\* C23: in the pipeline of the endpoints validate runs only after assemble
\* and after the tagging pass over the assembled nodes, and the graph finally
\* returned has issues equal to the symbol detector's issues followed by the
\* validator's, none of either source lost.
C23_ValidateLastIssuesJoined ==
    /\ [][calls' /= calls =>
            /\ pc = "parsed"
            /\ calls = 0
            /\ \A k \in 1..Len(nodes) :
                  HasParsableTag(nodes[k]) => nodes[k].attributes /= None]_vars
    /\ [](pc = "combined" =>
            /\ Len(issues) = Len(symbol_issues) + Len(returned)
            /\ \A k \in 1..Len(symbol_issues) : issues[k] = symbol_issues[k]
            /\ \A k \in 1..Len(returned) :
                  issues[Len(symbol_issues) + k] = returned[k])

\* a finished pipeline run with a parsed tag, a detector issue and
\* validator issues
C23_Witness ==
    /\ pc = "combined"
    /\ calls = 1
    /\ symbol_issues /= <<>>
    /\ Len(returned) >= 2
    /\ \E k \in 1..Len(nodes) : nodes[k].attributes /= None

-----------------------------------------------------------------------------
\* C26: with the edges and junctions of extract_lines_and_junctions
\* (junction 2i on edge i's start point, junction 2i+1 on its end point)
\* every edge leaves assemble with both endpoints non-null, for any symbols
\* and texts, and validate emits no dangling-start or dangling-end issue.
C26_NoDanglingInPipeline ==
    /\ Assembled =>
          \A k \in 1..Len(edges) :
              /\ edges[k].endpoints[1] /= None
              /\ edges[k].endpoints[2] /= None
    /\ pc \in {"validated", "combined"} =>
          /\ \A k \in 1..Len(returned) :
                returned[k].message \notin {DanglingStart, DanglingEnd}
          /\ \A k \in 1..Len(issues) :
                issues[k].message \notin {DanglingStart, DanglingEnd}

\* a validated pipeline graph with a line far from every symbol
C26_Witness ==
    /\ pc = "validated"
    /\ Len(edges) = 1
    /\ edges[1].polyline[1] /= edges[1].polyline[2]
    /\ \E k \in 1..Len(nodes) : nodes[k].kind /= "junction"
    /\ returned /= <<>>

-----------------------------------------------------------------------------
(* Vocabulary of the endpoint properties *)

\* the image ids the upload step has returned
UploadedIds == {temp_dir[k][1] : k \in 1..Len(temp_dir)}

\* C25: after an upload has returned an image id, an analyze request with
\* that id locates the stored file and runs the pipeline instead of
\* answering 404, for every file the upload step accepted, whatever the
\* extension of its name.
C25_AnalyzeFindsUpload ==
    (response.endpoint = "analyze" /\ response.image_id \in UploadedIds) =>
        /\ response.status /= 404
        /\ response.stages /= <<>>

-----------------------------------------------------------------------------
\* C30: with at least one uploaded file, a run request with a type other
\* than export, validate, ocr or graph is answered with status 400 and runs
\* no analysis stage.
C30_UnsupportedTypeIs400 ==
    (/\ response.endpoint = "run"
     /\ response.type \notin {"export", "validate", "ocr", "graph"}
     /\ temp_dir /= <<>>) =>
        /\ response.status = 400
        /\ response.stages = <<>>

-----------------------------------------------------------------------------
\* the positions of the texts of the graph that no node has consumed
NotOnNode ==
    {t \in 1..Len(texts) :
        \A a \in 1..Len(consumed) :
            consumed[a][2] = texts[t].id =>
                \A k \in 1..Len(nodes) : nodes[k].id /= consumed[a][1]}

\* C27: after assemble, for every node left with a null tag every text no
\* node has consumed (an edge label or an unassigned text) lies at least
\* 100 px from the node's centre, and for every edge left with a null label
\* every unassigned text lies at least 50 px from the edge's midpoint.
C27_NodesBeforeEdges ==
    Returned =>
        /\ \A k \in 1..Len(nodes) :
              nodes[k].tag = None =>
                  \A t \in NotOnNode :
                      BoxToBox(texts[t].bbox, nodes[k].bbox) >= Px100
        /\ \A k \in 1..Len(edges) :
              edges[k].label = None =>
                  \A t \in 1..Len(unassigned_texts) :
                      MidToBox(edges[k].polyline[1], edges[k].polyline[2],
                               unassigned_texts[t].bbox) >= Px50

\* an assembled graph with an untagged node, an unlabelled edge and a text
\* left over
C27_Witness ==
    /\ pc = "assembled"
    /\ \E k \in 1..Len(nodes) : nodes[k].tag = None
    /\ \E k \in 1..Len(edges) : edges[k].label = None
    /\ unassigned_texts /= <<>>

\* an assembled graph with an untagged node and a text, 100 px or more from
\* it, that became a label
C27_WitnessLabel ==
    /\ pc = "assembled"
    /\ \E k \in 1..Len(nodes) : nodes[k].tag = None
    /\ \E k \in 1..Len(edges) : edges[k].label /= None
    /\ NotOnNode /= {}

-----------------------------------------------------------------------------
\* the content of the text with the given id
ContentOf(id) == (CHOOSE t \in {texts[k] : k \in 1..Len(texts)} : t.id = id).content

-----------------------------------------------------------------------------
\* the ids of the nodes that are neither equipment nor instrument
Unlisted ==
    {nodes[k].id : k \in {j \in 1..Len(nodes) :
                            nodes[j].kind \notin {"equipment", "instrument"}}}

\* the ids in the node lists of the interchange document
Listed == Ids(exported.equipment) \cup Ids(exported.instruments)

\* C28: the interchange document is not closed over its node references: a
\* node that is neither equipment nor instrument is in neither node list,
\* and an edge with both endpoints resolved to such nodes still yields a
\* connection, whose from_node and to_node then name ids that are in no
\* node list of the document.
C28_ConnectionsToUnlistedNodes ==
    JsonExported =>
        /\ Unlisted \cap Listed = {}
        /\ \A k \in 1..Len(edges) :
              (/\ edges[k].endpoints[1] /= None
               /\ edges[k].endpoints[2] /= None
               /\ edges[k].endpoints[1][1] \in Unlisted
               /\ edges[k].endpoints[2][1] \in Unlisted) =>
                  \E c \in 1..Len(exported.connections) :
                      /\ exported.connections[c].line_id = edges[k].id
                      /\ exported.connections[c].from_node \notin Listed
                      /\ exported.connections[c].to_node \notin Listed

\* an exported document with a connection between ids that it does not list
C28_Witness ==
    /\ JsonExported
    /\ \E k \in 1..Len(nodes) : nodes[k].kind = "junction"
    /\ \E c \in 1..Len(exported.connections) :
          /\ exported.connections[c].from_node \in Unlisted \ Listed
          /\ exported.connections[c].to_node \in Unlisted \ Listed

-----------------------------------------------------------------------------
(* What a call does when nothing else runs: the loops of assemble_graph one
   after the other, then validate_graph *)

\* the nodes and the pool after the node loop
RECURSIVE TagAll(_, _, _)
TagAll(ns, pool, k) ==
    IF k > Len(ns) THEN <<ns, pool>>
    ELSE LET t == ClosestText(get_bbox_center(ns[k].bbox), pool,
                              TextNodeThreshold)
         IN  IF t = 0 THEN TagAll(ns, pool, k + 1)
             ELSE TagAll([ns EXCEPT ![k].tag = Some(pool[t].content)],
                         ListRemove(pool, pool[t]), k + 1)

\* the edges after the label loop, and whether it has raised
RECURSIVE LabelAll(_, _, _)
LabelAll(es, pool, k) ==
    IF k > Len(es) THEN <<es, FALSE>>
    ELSE IF Len(es[k].polyline) /= 2 THEN <<es, TRUE>>
    ELSE LET t == ClosestText(Midpoint2(es[k].polyline[1], es[k].polyline[2]),
                              pool, EdgeLabelThreshold)
         IN  IF t = 0 THEN LabelAll(es, pool, k + 1)
             ELSE LabelAll([es EXCEPT ![k].label = Some(pool[t].content)],
                           ListRemove(pool, pool[t]), k + 1)

\* the edges after the endpoint loop
RECURSIVE ConnectAll(_, _, _)
ConnectAll(es, ns, k) ==
    IF k > Len(es) THEN es
    ELSE LET s == ClosestNode(Point2(es[k].polyline[1]), ns)
             e == ClosestNode(Point2(es[k].polyline[2]), ns)
             ep0 == IF Connects(s) THEN Some(ns[s[1]].id) ELSE None
             ep1 == IF Connects(e) THEN Some(ns[e[1]].id) ELSE None
         IN  ConnectAll([es EXCEPT ![k].endpoints = <<ep0, ep1>>], ns, k + 1)

\* what a call leaves and returns
Outcome(position, ns, es, ts, graph_issues, result) ==
    [pc |-> position, nodes |-> ns, edges |-> es, texts |-> ts,
     issues |-> graph_issues, returned |-> result]

\* the outcome of a call that runs alone on the graph
RunAlone(graph) ==
    LET tagged == TagAll(graph.nodes, graph.texts, 1)
        labelled == LabelAll(graph.edges, tagged[2], 1)
    IN  IF labelled[2]
        THEN Outcome("error", tagged[1], labelled[1], graph.texts, <<>>, <<>>)
        ELSE LET connected == ConnectAll(labelled[1], tagged[1], 1)
                 found == validate_graph(tagged[1], connected)
             IN  Outcome("validated", tagged[1], connected, graph.texts,
                         found, found)

Over == {"validated", "error"}

\* C24: two calls, each running assemble_graph and then validate_graph on
\* objects of its own and interleaved in any order, each leave and return
\* exactly what they would when run alone: the same nodes, edges and texts,
\* the same issues, or the same exception at the same place.
C24_Reentrant ==
    /\ pc \in Over =>
          Outcome(pc, nodes, edges, texts, issues, returned) = RunAlone(input)
    /\ other.pc \in Over =>
          Outcome(other.pc, other.nodes, other.edges, other.texts,
                  other.issues, other.returned) = RunAlone(other.input)

\* the first call is over, having tagged a node or labelled a line, while
\* the second, which has done so too, is suspended in the middle of
\* validate_graph: the two have been interleaved
C24_Witness ==
    /\ pc = "validated"
    /\ input /= SecondGraph
    /\ consumed /= <<>>
    /\ returned /= <<>>
    /\ other.pc = "rule3"
    /\ other.consumed /= <<>>
    /\ other.local_issues[2] > 0

\* both calls are over, the first with an exception
C24_WitnessRaised ==
    /\ pc = "validated"
    /\ input = SecondGraph
    /\ Len(returned) = 3
    /\ other.pc = "error"
    /\ other.consumed /= <<>>

=============================================================================
